---- MODULE Spec2Model ----
(***************************************************************************)
(* CUMATDL: the course-builder downloader.  A model of the link            *)
(* normalisation / rewrite helpers that run inside the page               *)
(* (splitSegments, toRelative, normalizeUrl), of downloadFile, and of the  *)
(* processCourse / main pipeline that drives them.                         *)
(*                                                                         *)
(* Strings of the program that the code takes apart (path names, relative  *)
(* paths) are sequences of one-character strings; strings the code only    *)
(* compares as a whole (host names, ports) are TLA+ strings.               *)
(***************************************************************************)
EXTENDS Integers, Sequences, FiniteSets, TLC

VARIABLES
    \* ---- PathResolver harness (toRelative) ----
    pStage,        \* "input" | "done"
    pLocation,     \* location.pathname of the page, a string
    pTarget,       \* fixed.pathname of the link, a string
    pRel,          \* the string toRelative returned
    \* ---- UrlNormalizer harness (normalizeUrl) ----
    nStage,        \* "input" | "once" | "twice"
    nHref,         \* the href handed to normalizeUrl
    nCfg,          \* the rule configuration (the fields of PatchConfig it reads)
    nOut1,         \* normalizeUrl(href)
    nOut2,         \* normalizeUrl(normalizeUrl(href).toString())
    \* ---- the pipeline: main and processCourse ----
    pc,                 \* where main / processCourse stands
    run,                \* what the operator chose: year segment, courses, allSelected, blockedOnly
    courseIdx,          \* how many of the selected courses have been started
    replaceCourseBuilderPaths,  \* config.replaceCourseBuilderPaths of the current course
    attempt,            \* evaluateWithRetry: the loop variable
    lastEval,           \* outcome of the latest page.evaluate: "none" | "ok" | "destroyed" | "other"
    downloadUrls,       \* what the in-page function returned
    usableUrls,         \* downloadUrls after the filter
    fetchI,             \* the fetch loop's index i
    disk,               \* the file system below the working directory
    missingLog,         \* the entries pushed so far (main keeps no list when not allSelected)
    completedCourses,
    courseProgress,     \* the payload last given to courseProgressCb
    progressLine,       \* currentProgressLine, as what it shows
    results,            \* the outcome of each downloadFile call of the current fetch loop
    netCalls,           \* axios.get calls of the current fetch loop
    pass,               \* fetch harness: first or second run over the list
    firstResults,       \* fetch harness: results of the first run
    exitCode,           \* "running", or the exit code "0" | "1"
    gStage,             \* page harness: "off" | "page" | "evaluated" | "filtered"
    gPage,              \* the anchors of the page, in document order
    gCfg,               \* the PatchConfig given to the in-page function
    gLocation,          \* location of the page
    gUrls,              \* downloadUrls returned by the in-page function
    gHrefs,             \* the href attribute of each anchor after the in-page function
    gLog,               \* the lines written to the console
    gUsable             \* usableUrls

pathVars == <<pStage, pLocation, pTarget, pRel>>
normVars == <<nStage, nHref, nCfg, nOut1, nOut2>>
pageVars == <<gStage, gPage, gCfg, gLocation, gUrls, gHrefs, gLog, gUsable>>

pipeVars == <<pc, run, courseIdx, replaceCourseBuilderPaths, attempt, lastEval, downloadUrls,
              usableUrls, fetchI, disk, missingLog, completedCourses, courseProgress, progressLine,
              results, netCalls, pass, firstResults, exitCode>>

vars == <<pStage, pLocation, pTarget, pRel, nStage, nHref, nCfg, nOut1, nOut2,
          pc, run, courseIdx, replaceCourseBuilderPaths, attempt, lastEval, downloadUrls,
          usableUrls, fetchI, disk, missingLog, completedCourses, courseProgress, progressLine,
          results, netCalls, pass, firstResults, exitCode,
          gStage, gPage, gCfg, gLocation, gUrls, gHrefs, gLog, gUsable>>

(***************************************************************************)
(* Bounds of the explored inputs.                                          *)
(***************************************************************************)
MaxSegs == 3          \* segments in a path name of the PathResolver harness
MaxPathSegs == 3      \* segments in a path name of the UrlNormalizer harness
MaxDeepSegs == 5      \* segments in its deep path names (anchor and year segments only)
MaxLinks == 2         \* <li> links on a course page

(***************************************************************************)
(* String helpers (JavaScript string primitives).                          *)
(***************************************************************************)
SLASH == "/"

\* Array.prototype.join(sep) on an array of strings
RECURSIVE Join(_, _)
Join(parts, sep) ==
    IF parts = <<>> THEN <<>>
    ELSE IF Len(parts) = 1 THEN parts[1]
    ELSE parts[1] \o <<sep>> \o Join(Tail(parts), sep)

\* String.prototype.split(sep): always at least one (possibly empty) piece
RECURSIVE SplitFrom(_, _, _)
SplitFrom(s, sep, cur) ==
    IF s = <<>> THEN <<cur>>
    ELSE IF Head(s) = sep THEN <<cur>> \o SplitFrom(Tail(s), sep, <<>>)
    ELSE SplitFrom(Tail(s), sep, Append(cur, Head(s)))

Split(s, sep) == SplitFrom(s, sep, <<>>)

\* s.replace(/^\/+|\/+$/g, '')
RECURSIVE StripLeading(_)
StripLeading(s) ==
    IF s # <<>> /\ Head(s) = SLASH THEN StripLeading(Tail(s)) ELSE s

RECURSIVE StripTrailing(_)
StripTrailing(s) ==
    IF s # <<>> /\ s[Len(s)] = SLASH THEN StripTrailing(SubSeq(s, 1, Len(s) - 1)) ELSE s

StripSlashes(s) == StripTrailing(StripLeading(s))

\* the non-empty sequences over S of length at most n
SeqsUpTo(S, n) == UNION { [1..m -> S] : m \in 1..n }

\* URL.pathname: a slash, then the segments with slashes between them
Pathname(segs) == <<SLASH>> \o Join(segs, SLASH)

\* array.filter(Boolean) on an array of strings: drops the empty strings
FilterBoolean(parts) == SelectSeq(parts, LAMBDA p : p # <<>>)

(***************************************************************************)
(* PathResolver: the helpers of the in-page function.                      *)
(***************************************************************************)
\* s.endsWith('/')
EndsWithSlash(s) == s # <<>> /\ s[Len(s)] = SLASH

\* s.replace(/[^/]+$/, '/'): the trailing run of non-slash characters, when
\* there is one, is replaced by a slash
RECURSIVE DropTrailingName(_)
DropTrailingName(s) ==
    IF s # <<>> /\ s[Len(s)] # SLASH THEN DropTrailingName(SubSeq(s, 1, Len(s) - 1)) ELSE s

ReplaceTrailingName(s) ==
    IF s = <<>> \/ EndsWithSlash(s) THEN s ELSE DropTrailingName(s) \o <<SLASH>>

\* a plausible slip: the page's own file name is kept as a directory
baseDirKeepsFileName(pathname) == pathname

\* const baseDir = location.pathname.endsWith('/') ? ... : ...replace(/[^/]+$/, '/')
baseDir(pathname) ==
    IF EndsWithSlash(pathname) THEN pathname ELSE ReplaceTrailingName(pathname)

\* const splitSegments = pathname => pathname.replace(/^\/+|\/+$/g, '').split('/').filter(Boolean)
splitSegments(pathname) == FilterBoolean(Split(StripSlashes(pathname), SLASH))

\* while (i < baseParts.length && i < targetParts.length && baseParts[i] === targetParts[i]) i++
\* (i counts the segments already matched)
RECURSIVE CommonLoop(_, _, _)
CommonLoop(baseParts, targetParts, i) ==
    IF i < Len(baseParts) /\ i < Len(targetParts) /\ baseParts[i + 1] = targetParts[i + 1]
    THEN CommonLoop(baseParts, targetParts, i + 1)
    ELSE i

DOT == <<".">>
DOTDOT == <<".", ".">>

\* a plausible slip: one '..' too few (slice(i + 1) instead of slice(i))
toRelativeOneUpShort(baseParts, targetPath) ==
    LET targetParts == splitSegments(targetPath)
        i == CommonLoop(baseParts, targetParts, 0)
        up == [n \in 1..(IF Len(baseParts) > i THEN Len(baseParts) - i - 1 ELSE 0) |-> DOTDOT]
        down == SubSeq(targetParts, i + 1, Len(targetParts))
        rel == Join(up \o down, SLASH)
    IN  IF rel = <<>> THEN DOT ELSE rel

\* const toRelative = targetPath => { ... return rel || '.' }   (baseParts is closed over)
toRelative(baseParts, targetPath) ==
    LET targetParts == splitSegments(targetPath)
        i == CommonLoop(baseParts, targetParts, 0)
        up == [n \in 1..(Len(baseParts) - i) |-> DOTDOT]
        down == SubSeq(targetParts, i + 1, Len(targetParts))
        rel == Join(up \o down, SLASH)
    IN  IF rel = <<>> THEN DOT ELSE rel

(***************************************************************************)
(* UrlNormalizer: normalizeUrl of the in-page function.                    *)
(*                                                                         *)
(* A URL is held as the pieces the code reads and writes: protocol,        *)
(* hostname, port and pathname (a string).  An href is held as the pieces  *)
(* of its text; parsing may fail, and drops the scheme's default port.     *)
(***************************************************************************)
PMA_IP == "137.189.49.33"
PMA_NAME == "www.math.cuhk.edu.hk"

NullUrl == [ok |-> FALSE, protocol |-> "", hostname |-> "", port |-> "", pathname |-> <<>>]

\* the URL parser percent-encodes a space of the path
RECURSIVE EncodePath(_)
EncodePath(s) ==
    IF s = <<>> THEN <<>>
    ELSE (IF Head(s) = " " THEN <<"%", "2", "0">> ELSE <<Head(s)>>) \o EncodePath(Tail(s))

\* the forms of a single-dot path segment for the URL parser
SingleDotForms == { <<".">>, <<"%", "2", "e">>, <<"%", "2", "E">> }

IsSingleDot(seg) == seg \in SingleDotForms

IsDoubleDot(seg) == \E a \in SingleDotForms, b \in SingleDotForms : seg = a \o b

\* the URL parser's path state: a double-dot segment removes the segment before
\* it, a single-dot segment is left out, and either leaves an empty segment when
\* it is the last one
RECURSIVE DotSegments(_, _)
DotSegments(segs, acc) ==
    IF segs = <<>> THEN acc
    ELSE LET closing == IF Len(segs) = 1 THEN << <<>> >> ELSE <<>>
         IN  IF IsDoubleDot(Head(segs))
             THEN DotSegments(Tail(segs),
                      (IF acc = <<>> THEN acc ELSE SubSeq(acc, 1, Len(acc) - 1)) \o closing)
             ELSE IF IsSingleDot(Head(segs))
             THEN DotSegments(Tail(segs), acc \o closing)
             ELSE DotSegments(Tail(segs), Append(acc, Head(segs)))

\* the path of a parsed URL of a special scheme
ParsePath(p) ==
    IF p # <<>> /\ Head(p) = SLASH
    THEN <<SLASH>> \o Join(DotSegments(Tail(Split(p, SLASH)), <<>>), SLASH)
    ELSE p

DefaultPort(protocol) ==
    CASE protocol = "https:" -> "443"
      [] protocol = "http:" -> "80"
      [] OTHER -> "none"

\* new URL(href, location.href): throws on a malformed href; the parsed URL never
\* shows the default port of its scheme, and its path holds no dot segment
ParseUrl(href) ==
    IF ~href.wellFormed THEN NullUrl
    ELSE [ok |-> TRUE,
          protocol |-> href.protocol,
          hostname |-> href.hostname,
          port |-> IF href.port = DefaultPort(href.protocol) THEN "" ELSE href.port,
          pathname |-> ParsePath(EncodePath(href.pathname))]

\* URL.prototype.toString(), as the pieces of the text it gives
UrlToString(u) ==
    [wellFormed |-> TRUE, protocol |-> u.protocol, hostname |-> u.hostname,
     port |-> u.port, pathname |-> u.pathname]

\* the 'i' flag, for the letters of the anchor
ToLower(c) ==
    CASE c = "C" -> "c" [] c = "O" -> "o" [] c = "U" -> "u" [] c = "R" -> "r"
      [] c = "S" -> "s" [] c = "E" -> "e" [] c = "B" -> "b" [] c = "I" -> "i"
      [] c = "L" -> "l" [] c = "D" -> "d" [] OTHER -> c

IsDigit(c) == c \in {"0", "1", "2", "3", "4", "5", "6", "7", "8", "9"}

\* '\/course_builder\/' of YEAR_FIX_REGEX_SOURCE
ANCHOR == <<"/", "c", "o", "u", "r", "s", "e", "_", "b", "u", "i", "l", "d", "e", "r", "/">>

AnchorAt(p, i) ==
    /\ i + Len(ANCHOR) - 1 <= Len(p)
    /\ \A j \in 1..Len(ANCHOR) : ToLower(p[i + j - 1]) = ANCHOR[j]

\* where '(?:_?\d{4})' starts reading digits, once the anchor has matched at i
DigitsStart(p, i) ==
    LET j == i + Len(ANCHOR)
    IN  IF j <= Len(p) /\ p[j] = "_" THEN j + 1 ELSE j

\* new RegExp('(\/course_builder\/)(?:_?\d{4})(\/)', 'i') matches at position i
YearExpMatchesAt(p, i) ==
    /\ AnchorAt(p, i)
    /\ LET d == DigitsStart(p, i)
       IN  /\ d + 4 <= Len(p)
           /\ \A k \in 0..3 : IsDigit(p[d + k])
           /\ p[d + 4] = SLASH

\* a plausible slip: the year segment is not consumed by the match, so the
\* replacement is inserted in front of it
YearReplaceInserts(p, yearPrefix, courseYearDigits) ==
    LET hits == { i \in 1..Len(p) : AnchorAt(p, i) }
    IN  IF hits = {} THEN p
        ELSE LET i == CHOOSE h \in hits : \A g \in hits : h <= g
             IN  SubSeq(p, 1, i + Len(ANCHOR) - 1) \o yearPrefix \o courseYearDigits
                     \o <<SLASH>> \o SubSeq(p, i + Len(ANCHOR), Len(p))

\* a plausible slip: the expression has the 'g' flag, every match is replaced
RECURSIVE YearReplaceEvery(_, _, _)
YearReplaceEvery(p, yearPrefix, courseYearDigits) ==
    LET hits == { i \in 1..Len(p) : YearExpMatchesAt(p, i) }
    IN  IF hits = {} THEN p
        ELSE LET i == CHOOSE h \in hits : \A g \in hits : h <= g
                 d == DigitsStart(p, i)
             IN  SubSeq(p, 1, i + Len(ANCHOR) - 1) \o yearPrefix \o courseYearDigits
                     \o YearReplaceEvery(SubSeq(p, d + 4, Len(p)), yearPrefix, courseYearDigits)

\* pathname.replace(yearExp, (_m, p1, p2) => `${p1}${yearPrefix}${courseYearDigits}${p2}`):
\* the leftmost match only (the expression has no 'g' flag)
YearReplace(p, yearPrefix, courseYearDigits) ==
    LET hits == { i \in 1..Len(p) : YearExpMatchesAt(p, i) }
    IN  IF hits = {} THEN p
        ELSE LET i == CHOOSE h \in hits : \A g \in hits : h <= g
                 d == DigitsStart(p, i)
             IN  SubSeq(p, 1, i - 1) \o SubSeq(p, i, i + Len(ANCHOR) - 1)
                     \o yearPrefix \o courseYearDigits
                     \o <<p[d + 4]>> \o SubSeq(p, d + 5, Len(p))

\* a plausible slip: the port is left as it was when the host is replaced
HostFixKeepsPort(target, cfg) ==
    IF cfg.forceHostReplacement /\ target.hostname = cfg.hostNeedingFix
    THEN [target EXCEPT !.hostname = cfg.hostReplacement]
    ELSE target

\* if (config.forceHostReplacement && target.hostname === config.hostNeedingFix) { ... }
HostFix(target, cfg) ==
    IF cfg.forceHostReplacement /\ target.hostname = cfg.hostNeedingFix
    THEN [target EXCEPT !.hostname = cfg.hostReplacement, !.port = ""]
    ELSE target

\* if (yearExp) { target.pathname = target.pathname.replace(yearExp, ...) }
YearFix(target, cfg) ==
    IF cfg.applyYearRewrite
    THEN [target EXCEPT !.pathname = YearReplace(target.pathname, cfg.yearPrefix, cfg.courseYearDigits)]
    ELSE target

\* const normalizeUrl = (href) => URL | null
normalizeUrl(href, cfg) ==
    LET target == ParseUrl(href)
    IN  IF ~target.ok THEN NullUrl ELSE YearFix(HostFix(target, cfg), cfg)

(***************************************************************************)
(* Local targets and the file system.                                      *)
(*                                                                         *)
(* A local path is the sequence of its segments below the working          *)
(* directory.  The file system is the set of directories and a function    *)
(* from the paths of the files to their contents.                          *)
(***************************************************************************)
IsHex(c) == IsDigit(c) \/ c \in {"A", "B", "C", "D", "E", "F", "a", "b", "c", "d", "e", "f"}

PERCENT == "%"

\* the escapes the model's URLs use: %20 is a space, %25 a percent sign, %2F a slash
EscapeValue(h1, h2) ==
    CASE h1 = "2" /\ h2 = "0" -> " "
      [] h1 = "2" /\ h2 = "5" -> "%"
      [] h1 = "2" /\ h2 \in {"F", "f"} -> "/"
      [] h1 = "2" /\ h2 \in {"E", "e"} -> "."
      [] OTHER -> "?"

\* decodeURI leaves the escapes of reserved characters (here '/') as they are
IsReservedEscape(h1, h2) == h1 = "2" /\ h2 \in {"F", "f"}

MalformedUri == <<"URIError">>

\* the decoding loop shared by decodeURI and decodeURIComponent; keepReserved is
\* TRUE for decodeURI.  A '%' that two hex digits do not follow is a URIError.
RECURSIVE Decode(_, _)
Decode(s, keepReserved) ==
    IF s = <<>> THEN [ok |-> TRUE, value |-> <<>>]
    ELSE IF Head(s) # PERCENT
    THEN LET rest == Decode(Tail(s), keepReserved)
         IN  [ok |-> rest.ok, value |-> <<Head(s)>> \o rest.value]
    ELSE IF Len(s) < 3 \/ ~IsHex(s[2]) \/ ~IsHex(s[3])
    THEN [ok |-> FALSE, value |-> MalformedUri]
    ELSE LET rest == Decode(SubSeq(s, 4, Len(s)), keepReserved)
             piece == IF keepReserved /\ IsReservedEscape(s[2], s[3])
                      THEN SubSeq(s, 1, 3)
                      ELSE <<EscapeValue(s[2], s[3])>>
         IN  [ok |-> rest.ok, value |-> piece \o rest.value]

decodeURI(s) == Decode(s, TRUE)

decodeURIComponent(s) == Decode(s, FALSE)

Seg_course_builder == <<"c", "o", "u", "r", "s", "e", "_", "b", "u", "i", "l", "d", "e", "r">>
Seg_courses == <<"c", "o", "u", "r", "s", "e", "s">>
Seg_dl == <<"d", "l">>

\* const DOWNLOAD_ROOT = path.resolve('./dl/')
DOWNLOAD_ROOT == <<Seg_dl>>

\* path.join: the pieces are split at '/', empty and '.' pieces are dropped, and a
\* '..' piece removes the piece before it
RECURSIVE NormalizePieces(_, _)
NormalizePieces(acc, pieces) ==
    IF pieces = <<>> THEN acc
    ELSE IF Head(pieces) = <<>> \/ Head(pieces) = <<".">> THEN NormalizePieces(acc, Tail(pieces))
    ELSE IF Head(pieces) = <<".", ".">>
         THEN NormalizePieces(IF acc = <<>> THEN acc ELSE SubSeq(acc, 1, Len(acc) - 1), Tail(pieces))
    ELSE NormalizePieces(Append(acc, Head(pieces)), Tail(pieces))

RECURSIVE SplitAll(_)
SplitAll(segs) ==
    IF segs = <<>> THEN <<>> ELSE Split(Head(segs), SLASH) \o SplitAll(Tail(segs))

pathJoin(root, segs) == NormalizePieces(root, SplitAll(segs))

\* path.dirname
pathDirname(p) == IF p = <<>> THEN p ELSE SubSeq(p, 1, Len(p) - 1)

RECURSIVE DecodeAll(_)
DecodeAll(parts) ==
    IF parts = <<>> THEN [ok |-> TRUE, value |-> <<>>]
    ELSE LET d == decodeURIComponent(Head(parts))
             rest == DecodeAll(Tail(parts))
         IN  IF ~d.ok \/ ~rest.ok THEN [ok |-> FALSE, value |-> <<>>]
             ELSE [ok |-> TRUE, value |-> <<d.value>> \o rest.value]

\* function localPathFromUrl(url): throws when a segment does not decode.  The url
\* it is given is decodeURI's output, which new URL parses again.
localPathFromUrl(url) ==
    LET u == ParseUrl(url)
        parts == FilterBoolean(Split(u.pathname, SLASH))
        kept == IF parts # <<>> /\ parts[1] \in {Seg_course_builder, Seg_courses}
                THEN Tail(parts) ELSE parts
        decoded == DecodeAll(kept)
    IN  IF ~u.ok \/ ~decoded.ok THEN [ok |-> FALSE, path |-> <<>>]
        ELSE [ok |-> TRUE, path |-> pathJoin(DOWNLOAD_ROOT, decoded.value)]

\* fs.existsSync
existsSync(fs, p) == p \in fs.dirs \/ p \in DOMAIN fs.files

Prefixes(p) == { SubSeq(p, 1, n) : n \in 1..Len(p) }

\* fs.promises.mkdir(dir, { recursive: true }): fails when a file is in the way
mkdirOk(fs, dir) == Prefixes(dir) \cap DOMAIN fs.files = {}

mkdirRecursive(fs, dir) == [fs EXCEPT !.dirs = @ \cup Prefixes(dir)]

\* a plausible slip: the data never reaches the disk
writeFileNowhere(fs, p, data) == fs

\* a plausible slip: a file that exists is left as it is (flag 'wx')
writeFileKeepsExisting(fs, p, data) ==
    [fs EXCEPT !.files = [q \in DOMAIN @ \cup {p} |-> IF q = p /\ q \notin DOMAIN @ THEN data ELSE @[q]]]

\* fs.promises.writeFile(p, data): the file holds data afterwards
writeFile(fs, p, data) ==
    [fs EXCEPT !.files = [q \in DOMAIN @ \cup {p} |-> IF q = p THEN data ELSE @[q]]]

EmptyDisk == [dirs |-> {}, files |-> <<>>]

(***************************************************************************)
(* The run's configuration and the pages of the site.                      *)
(***************************************************************************)
StartsWith(s, prefix) == Len(s) >= Len(prefix) /\ SubSeq(s, 1, Len(prefix)) = prefix

\* const CURRENT_YEAR = '2526'
CURRENT_YEAR == <<"2", "5", "2", "6">>

Seg_2526 == <<"2", "5", "2", "6">>
Seg_u2425 == <<"_", "2", "4", "2", "5">>
Seg_2223 == <<"2", "2", "2", "3">>
Underscore == <<"_">>

\* const normalizeYear = seg => (seg.startsWith('_') ? seg : `_${seg}`)
normalizeYear(seg) == IF StartsWith(seg, Underscore) THEN seg ELSE Underscore \o seg

\* const yearDigits = yearName => yearName.replace(/^_/, '')
yearDigits(yearName) == IF StartsWith(yearName, Underscore) THEN Tail(yearName) ELSE yearName

\* a plausible slip: the year's digits alone decide, the underscore is not looked at
PatchConfigOfDigitsOnly(seg, blockedOnly) ==
    LET hasUnderscore == StartsWith(seg, Underscore)
        displayLabel == yearDigits(seg)
        skipYearRewrite == displayLabel = CURRENT_YEAR
        forceHost == displayLabel = CURRENT_YEAR
    IN  [applyYearRewrite |-> ~skipYearRewrite,
         yearPrefix |-> IF hasUnderscore THEN Underscore ELSE <<>>,
         courseYearDigits |-> yearDigits(normalizeYear(seg)),
         forceHostReplacement |-> forceHost,
         hostNeedingFix |-> PMA_IP,
         hostReplacement |-> PMA_NAME,
         blockedCoursesOnly |-> blockedOnly]

\* main: skipYearRewrite, forceHostReplacement, and the patchConfig built for each course
PatchConfigOf(seg, blockedOnly) ==
    LET hasUnderscore == StartsWith(seg, Underscore)
        displayLabel == yearDigits(seg)
        skipYearRewrite == displayLabel = CURRENT_YEAR /\ ~hasUnderscore
        forceHost == displayLabel = CURRENT_YEAR /\ ~hasUnderscore
    IN  [applyYearRewrite |-> ~skipYearRewrite,
         yearPrefix |-> IF hasUnderscore THEN Underscore ELSE <<>>,
         courseYearDigits |-> yearDigits(normalizeYear(seg)),
         forceHostReplacement |-> forceHost,
         hostNeedingFix |-> PMA_IP,
         hostReplacement |-> PMA_NAME,
         blockedCoursesOnly |-> blockedOnly]

Label_1 == <<"M", "A", "T", "H", "1", "0", "1", "0">>
Label_2 == <<"M", "A", "T", "H", "1", "0", "2", "0">>

\* courseChoices: the course folders of the chosen year
CourseLabels == <<Label_1, Label_2>>

HttpsHref(host, port, segs) ==
    [wellFormed |-> TRUE, protocol |-> "https:", hostname |-> host, port |-> port,
     pathname |-> Pathname(segs)]

\* courseChoice.href
CourseHref(seg, k) == HttpsHref(PMA_NAME, "", <<Seg_course_builder, seg, CourseLabels[k], <<>>>>)

NoHref == [wellFormed |-> FALSE, protocol |-> "", hostname |-> "", port |-> "", pathname |-> <<>>]

JavascriptHref ==
    [wellFormed |-> TRUE, protocol |-> "javascript:", hostname |-> "", port |-> "",
     pathname |-> <<"v", "o", "i", "d", "(", "0", ")">>]

\* what the first anchor of an <li> of a course page may point to (a.href)
Link_a == HttpsHref(PMA_NAME, "", <<Seg_course_builder, Seg_2526, Label_1, <<"a">>>>)

Link_a_ip == HttpsHref(PMA_IP, "", <<Seg_course_builder, Seg_2526, Label_1, <<"a">>>>)

Link_b == HttpsHref(PMA_NAME, "", <<Seg_course_builder, Seg_2526, Label_1, <<"b">>>>)

\* a file name with a bare '%', such as '100%.pdf'
Link_percent == HttpsHref(PMA_NAME, "", <<Seg_course_builder, Seg_2526, Label_1, <<"1", "%">>>>)

\* a file name with an escaped '%'
Link_escaped == HttpsHref(PMA_NAME, "", <<Seg_course_builder, Seg_2526, Label_1, <<"p", "%", "2", "5">>>>)

\* a path with twice-escaped dots: '%252e%252e' is an ordinary segment for the
\* URL parser, and decodes to the double-dot segment '%2e%2e'
Seg_dots == <<"%", "2", "5", "2", "e", "%", "2", "5", "2", "e">>

Link_dots == HttpsHref(PMA_NAME, "", <<Seg_course_builder, Seg_dots, <<"x">>>>)

\* a file name with escaped slashes: '..%2F..%2F..%2Fx' is one ordinary segment for
\* the URL parser and for decodeURI, and decodeURIComponent makes '../../../x' of it
Seg_traversal == <<".", ".", "%", "2", "F", ".", ".", "%", "2", "F", ".", ".", "%", "2", "F", "x">>

Link_traversal == HttpsHref(PMA_NAME, "", <<Seg_course_builder, Seg_2526, Label_1, Seg_traversal>>)

Link_staff == HttpsHref(PMA_NAME, "", << <<"~", "s">>, <<"n">> >>)

Link_foreign == HttpsHref("example.org", "", <<Seg_course_builder, <<"x">>>>)

Seg_index_html == <<"i", "n", "d", "e", "x", ".", "h", "t", "m", "l">>

\* a link to the index.html of the second course's folder
Link_index == HttpsHref(PMA_NAME, "", <<Seg_course_builder, Seg_2526, Label_2, Seg_index_html>>)

\* the <li> anchors of a course page, in document order
Pages ==
    { <<Link_a, Link_a_ip, Link_b, Link_staff>>,
      <<Link_index, Link_a, Link_b, Link_staff>>,
      <<Link_a, Link_dots, Link_percent, Link_foreign>>,
      <<Link_percent, Link_a, Link_b, NoHref>>,
      <<Link_staff, Link_escaped, JavascriptHref, Link_foreign>> }

\* the pages cut to at most MaxLinks anchors
PagePrefixes(max) ==
    { SubSeq(p, 1, IF n < Len(p) THEN n ELSE Len(p)) : p \in Pages, n \in 0..max }

PageLinkLists == PagePrefixes(MaxLinks)

\* s.replace(/course_builder/g, 'courses')
RECURSIVE ReplaceAll(_, _, _)
ReplaceAll(s, from, to) ==
    IF s = <<>> THEN <<>>
    ELSE IF StartsWith(s, from) THEN to \o ReplaceAll(SubSeq(s, Len(from) + 1, Len(s)), from, to)
    ELSE <<Head(s)>> \o ReplaceAll(Tail(s), from, to)

\* a plausible slip: 'course_builder' is left in the urls of a blocked course
RECURSIVE LiPassKeepsCourseBuilder(_, _, _)
LiPassKeepsCourseBuilder(links, cfg, replaceCB) ==
    IF links = <<>> THEN <<>>
    ELSE LET href == Head(links)
             fixed == normalizeUrl(href, cfg)
         IN  (IF href.protocol = "javascript:" \/ ~fixed.ok THEN <<>> ELSE <<UrlToString(fixed)>>)
                 \o LiPassKeepsCourseBuilder(Tail(links), cfg, replaceCB)

\* a plausible slip: an href that does not parse ends the pass
RECURSIVE LiPassStopsAtMalformed(_, _, _)
LiPassStopsAtMalformed(links, cfg, replaceCB) ==
    IF links = <<>> THEN <<>>
    ELSE LET href == Head(links)
             fixed == normalizeUrl(href, cfg)
             finalHref == UrlToString(fixed)
             pushed == IF replaceCB
                       THEN [finalHref EXCEPT !.pathname = ReplaceAll(@, Seg_course_builder, Seg_courses)]
                       ELSE finalHref
         IN  IF href.protocol # "javascript:" /\ ~fixed.ok THEN <<>>
             ELSE (IF href.protocol = "javascript:" THEN <<>> ELSE <<pushed>>)
                      \o LiPassStopsAtMalformed(Tail(links), cfg, replaceCB)

\* document.querySelectorAll('li').forEach(...): the list of urls the in-page
\* function returns for the page's <li> links
RECURSIVE LiPass(_, _, _)
LiPass(links, cfg, replaceCB) ==
    IF links = <<>> THEN <<>>
    ELSE LET href == Head(links)
             fixed == normalizeUrl(href, cfg)
             finalHref == UrlToString(fixed)
             pushed == IF replaceCB
                       THEN [finalHref EXCEPT !.pathname = ReplaceAll(@, Seg_course_builder, Seg_courses)]
                       ELSE finalHref
         IN  (IF href.protocol = "javascript:" \/ ~fixed.ok THEN <<>> ELSE <<pushed>>)
                 \o LiPass(Tail(links), cfg, replaceCB)

\* const STAFF_PREFIX = 'https://www.math.cuhk.edu.hk/~': url.startsWith(STAFF_PREFIX)
StartsWithStaffPrefix(url) ==
    /\ url.protocol = "https:" /\ url.hostname = PMA_NAME /\ url.port = ""
    /\ StartsWith(url.pathname, <<"/", "~">>)

\* const ALLOWED_HOSTS = new Set([PMA_NAME, PMA_IP])
ALLOWED_HOSTS == {PMA_NAME, PMA_IP}

\* the callback of downloadUrls.filter(...)
IsUsableUrl(url) ==
    /\ ~StartsWithStaffPrefix(url)
    /\ LET u == ParseUrl(url)
       IN  /\ u.ok
           /\ u.hostname \in ALLOWED_HOSTS
           /\ \/ StartsWith(u.pathname, <<SLASH>> \o Seg_course_builder \o <<SLASH>>)
              \/ StartsWith(u.pathname, <<SLASH>> \o Seg_courses \o <<SLASH>>)

\* a plausible slip: the urls that pass come out last first
UsableUrlsReversed(urls) ==
    LET kept == SelectSeq(urls, IsUsableUrl)
    IN  [k \in 1..Len(kept) |-> kept[Len(kept) + 1 - k]]

\* const usableUrls = downloadUrls.filter(...)
UsableUrlsOf(urls) == SelectSeq(urls, IsUsableUrl)

(***************************************************************************)
(* downloadFile and the progress display.                                  *)
(***************************************************************************)
FileBody(url) == [kind |-> "body", url |-> url, lines |-> <<>>]
PartialBody(url) == [kind |-> "partial", url |-> url, lines |-> <<>>]
HtmlFile(url) == [kind |-> "html", url |-> url, lines |-> <<>>]
ReportFile(lines) == [kind |-> "report", url |-> NoHref, lines |-> lines]

\* a plausible slip: no existsSync test, the file is fetched and written again
downloadFileOverwrites(url, fs, net, wr) ==
    LET lp == localPathFromUrl(url)
        dir == pathDirname(lp.path)
        fs1 == mkdirRecursive(fs, dir)
    IN  IF ~lp.ok THEN [result |-> "Failed", reason |-> "uri", fs |-> fs, net |-> 0]
        ELSE IF ~mkdirOk(fs, dir) THEN [result |-> "Failed", reason |-> "mkdir", fs |-> fs, net |-> 0]
        ELSE IF net = "error" THEN [result |-> "Failed", reason |-> "get", fs |-> fs1, net |-> 1]
        ELSE [result |-> "Downloaded", reason |-> "", fs |-> writeFile(fs1, lp.path, FileBody(url)), net |-> 1]

\* async function downloadFile(url).  net is what axios.get does ("ok" | "error"),
\* wr what writeFile does ("ok" | "error": nothing written | "partial": the write
\* fails part-way).  The outcome is Skipped or Downloaded when it returns, and
\* Failed with the reason when it throws.
downloadFile(url, fs, net, wr) ==
    LET lp == localPathFromUrl(url)
        dir == pathDirname(lp.path)
        fs1 == mkdirRecursive(fs, dir)
    IN  IF ~lp.ok THEN [result |-> "Failed", reason |-> "uri", fs |-> fs, net |-> 0]
        ELSE IF ~mkdirOk(fs, dir) THEN [result |-> "Failed", reason |-> "mkdir", fs |-> fs, net |-> 0]
        ELSE IF existsSync(fs1, lp.path) THEN [result |-> "Skipped", reason |-> "", fs |-> fs1, net |-> 0]
        ELSE IF net = "error" THEN [result |-> "Failed", reason |-> "get", fs |-> fs1, net |-> 1]
        ELSE IF wr = "error" THEN [result |-> "Failed", reason |-> "write", fs |-> fs1, net |-> 1]
        ELSE IF wr = "partial"
             THEN [result |-> "Failed", reason |-> "write",
                   fs |-> writeFile(fs1, lp.path, PartialBody(url)), net |-> 1]
        ELSE [result |-> "Downloaded", reason |-> "", fs |-> writeFile(fs1, lp.path, FileBody(url)), net |-> 1]

NetOutcomes == {"ok", "error"}
WriteOutcomes == {"ok", "error", "partial"}

\* courseProgressCb(null)
NullProgress == [set |-> FALSE, courseName |-> <<>>, downloaded |-> 0, total |-> 0]

\* a plausible slip: the payload counts the files before the current one
ProgressLagging(name, downloaded, total) ==
    [set |-> TRUE, courseName |-> name,
     downloaded |-> IF downloaded > 0 THEN downloaded - 1 ELSE 0, total |-> total]

\* the payload of courseProgressCb
Progress(name, downloaded, total) ==
    [set |-> TRUE, courseName |-> name, downloaded |-> downloaded, total |-> total]

\* clearProgressLine(): currentProgressLine = ''
ClearedLine == [shown |-> FALSE, completed |-> 0, total |-> 0, course |-> NullProgress]

\* a plausible slip: the per-course line is left out
renderProgressOverallOnly(completed, total, cp) ==
    IF total <= 0 THEN ClearedLine
    ELSE [shown |-> TRUE, completed |-> completed, total |-> total, course |-> NullProgress]

\* function renderProgress(completed, total, courseProgress): what setProgressLine shows
renderProgress(completed, total, cp) ==
    IF total <= 0 THEN ClearedLine
    ELSE [shown |-> TRUE, completed |-> completed, total |-> total,
          course |-> IF cp.set /\ cp.total > 0 THEN cp ELSE NullProgress]

\* evaluateWithRetry: retries = 3
EVAL_RETRIES == 3

\* a plausible slip: every failure is retried, whatever its message
ShouldRetryAnyFailure(outcome, n) == outcome # "ok" /\ n # EVAL_RETRIES - 1

\* a plausible slip: the loop gives up one attempt early
ShouldRetryOneShort(outcome, n) == outcome = "destroyed" /\ n < EVAL_RETRIES - 2

\* the catch block of evaluateWithRetry: if (!destroyed || attempt === retries - 1) throw err
ShouldRetry(outcome, n) == outcome = "destroyed" /\ n # EVAL_RETRIES - 1

(***************************************************************************)
(* A harness that a specification does not use stays switched off.         *)
(***************************************************************************)
PathOff == pStage = "off" /\ pLocation = <<>> /\ pTarget = <<>> /\ pRel = <<>>

NoRun == [yearSeg |-> <<>>, courses |-> <<>>, allSelected |-> FALSE, blockedOnly |-> FALSE]

PipeOff ==
    /\ pc = "off" /\ run = NoRun /\ courseIdx = 0 /\ replaceCourseBuilderPaths = FALSE
    /\ attempt = 0 /\ lastEval = "none" /\ downloadUrls = <<>> /\ usableUrls = <<>>
    /\ fetchI = 0 /\ disk = EmptyDisk /\ missingLog = <<>> /\ completedCourses = 0
    /\ courseProgress = NullProgress /\ progressLine = ClearedLine /\ results = <<>>
    /\ netCalls = 0 /\ pass = 1 /\ firstResults = <<>> /\ exitCode = "running"

NormOff ==
    /\ nStage = "off" /\ nHref = NullUrl /\ nCfg = <<>> /\ nOut1 = NullUrl /\ nOut2 = NullUrl

PageOff ==
    /\ gStage = "off" /\ gPage = <<>> /\ gCfg = <<>> /\ gLocation = NullUrl
    /\ gUrls = <<>> /\ gHrefs = <<>> /\ gLog = <<>> /\ gUsable = <<>>

(***************************************************************************)
(* Path names the harness explores.  A path name of a parsed URL starts    *)
(* with '/', and the URL parser has already removed every '.' and '..'     *)
(* segment, so the segments between the slashes are names or empty.        *)
(***************************************************************************)
PathSegPool == { <<"a">>, <<"b">>, <<"a", "b">>, <<>> }

PathNames == { Pathname(segs) : segs \in SeqsUpTo(PathSegPool, MaxSegs) }

InitPath ==
    /\ pStage = "input"
    /\ pLocation \in PathNames
    /\ pTarget \in PathNames
    /\ pRel = <<>>
    /\ NormOff
    /\ PipeOff
    /\ PageOff

\* the a[href] pass, for one same-origin link: relPath = toRelative(fixed.pathname)
ToRelativeStep ==
    /\ pStage = "input"
    /\ pRel' = toRelative(splitSegments(baseDir(pLocation)), pTarget)
    /\ pStage' = "done"
    /\ UNCHANGED <<pLocation, pTarget, normVars, pipeVars, pageVars>>

NextPath == ToRelativeStep

SpecPath == InitPath /\ [][NextPath]_vars

(***************************************************************************)
(* The pipeline: main's loop over the selected courses and processCourse.  *)
(* Init is main at its start; run holds the answers the operator will give  *)
(* to chooseYear and chooseCourses.                                        *)
(***************************************************************************)
\* the year folder the operator chose (yearChoice.seg)
YearSegs == { Seg_2526, Seg_u2425 }

\* chooseCourses: a hand-picked course, '-1' (all), '-2' (blocked only)
Selections ==
    { [courses |-> <<1>>, allSelected |-> FALSE, blockedOnly |-> FALSE],
      [courses |-> <<1, 2>>, allSelected |-> TRUE, blockedOnly |-> FALSE],
      [courses |-> <<1, 2>>, allSelected |-> TRUE, blockedOnly |-> TRUE] }

\* the answers to the two prompts: a hand-picked course of either year, all
\* courses of the current year, the blocked courses of the earlier year
Runs ==
    { [yearSeg |-> y, courses |-> c.courses, allSelected |-> c.allSelected, blockedOnly |-> c.blockedOnly] :
        y \in YearSegs, c \in Selections } \
    { [yearSeg |-> Seg_u2425, courses |-> <<1, 2>>, allSelected |-> TRUE, blockedOnly |-> FALSE],
      [yearSeg |-> Seg_2526, courses |-> <<1, 2>>, allSelected |-> TRUE, blockedOnly |-> TRUE] }

totalCourses == Len(run.courses)

CurrentCourse == run.courses[courseIdx]

CurrentLabel == CourseLabels[CurrentCourse]

PatchConfig == PatchConfigOf(run.yearSeg, run.blockedOnly)

\* a plausible slip: the entry is never kept
LogMissingNever(log, entry) == log

\* config.missingLogger?.(entry): a no-op unless allSelected
LogMissing(log, entry) == IF run.allSelected THEN Append(log, entry) ELSE log

Init ==
    /\ pc = "start"
    /\ run \in Runs
    /\ courseIdx = 0
    /\ replaceCourseBuilderPaths = FALSE
    /\ attempt = 0
    /\ lastEval = "none"
    /\ downloadUrls = <<>>
    /\ usableUrls = <<>>
    /\ fetchI = 0
    /\ disk = EmptyDisk
    /\ missingLog = <<>>
    /\ completedCourses = 0
    /\ courseProgress = NullProgress
    /\ progressLine = ClearedLine
    /\ results = <<>>
    /\ netCalls = 0
    /\ pass = 1
    /\ firstResults = <<>>
    /\ exitCode = "running"
    /\ PathOff
    /\ NormOff
    /\ PageOff

\* an error nobody catches below main: the .catch handler of main
\* (clearProgressLine(); console.error(...); process.exit(1))
Crash ==
    /\ pc' = "exited"
    /\ exitCode' = "1"
    /\ progressLine' = ClearedLine

\* main ends by a plain return: the process exits with code 0 once nothing is
\* left to run (browser.close(); clearProgressLine(); return)
ReturnFromMain(why) ==
    /\ pc' = why
    /\ exitCode' = "0"
    /\ progressLine' = ClearedLine

\* main from its start to the test of yearChoices: page.goto(PMA_CBROOT), the
\* list of year folders, 'No year folders found.'
OpenRoot ==
    /\ pc = "start"
    /\ \E listing \in {"years", "none", "error"} :
          CASE listing = "error" -> Crash
            [] listing = "none" -> ReturnFromMain("noYears")
            [] OTHER -> pc' = "year" /\ UNCHANGED <<exitCode, progressLine>>
    /\ UNCHANGED <<run, courseIdx, replaceCourseBuilderPaths, attempt, lastEval, downloadUrls,
                   usableUrls, fetchI, disk, missingLog, completedCourses, courseProgress,
                   results, netCalls, pass, firstResults, pathVars, normVars, pageVars>>

\* main from chooseYear to chooseCourses: page.goto(yearChoice.href), the list of
\* course folders, 'No matching course folders', the selection
OpenYear ==
    /\ pc = "year"
    /\ \E listing \in {"courses", "none", "error"} :
          CASE listing = "error" -> Crash
            [] listing = "none" -> ReturnFromMain("noCourses")
            [] OTHER -> pc' = "loop" /\ UNCHANGED <<exitCode, progressLine>>
    /\ UNCHANGED <<run, courseIdx, replaceCourseBuilderPaths, attempt, lastEval, downloadUrls,
                   usableUrls, fetchI, disk, missingLog, completedCourses, courseProgress,
                   results, netCalls, pass, firstResults, pathVars, normVars, pageVars>>

\* a plausible slip: the course is not counted when processCourse returns
ReturnToMainUncounted ==
    /\ pc' = "loop"
    /\ downloadUrls' = <<>>
    /\ usableUrls' = <<>>
    /\ fetchI' = 0
    /\ results' = <<>>
    /\ netCalls' = 0
    /\ completedCourses' = completedCourses
    /\ courseProgress' = NullProgress
    /\ progressLine' = renderProgress(completedCourses, totalCourses, NullProgress)

\* processCourse returns to main's loop: completedCourses += 1; updateProgress(null)
ReturnToMain ==
    /\ pc' = "loop"
    /\ downloadUrls' = <<>>
    /\ usableUrls' = <<>>
    /\ fetchI' = 0
    /\ results' = <<>>
    /\ netCalls' = 0
    /\ completedCourses' = completedCourses + 1
    /\ courseProgress' = NullProgress
    /\ progressLine' = renderProgress(completedCourses + 1, totalCourses, NullProgress)

\* main's for loop takes the next course; processCourse up to evaluateWithRetry:
\* page.goto, the test for 'index-before_block.html', the blocked-only skip
BeginCourse ==
    /\ pc = "loop"
    /\ courseIdx < totalCourses
    /\ courseIdx' = courseIdx + 1
    /\ attempt' = 0
    /\ lastEval' = "none"
    /\ \E nav \in {"ok", "error"}, hasBeforeBlock \in BOOLEAN :
          IF nav = "error"
          THEN /\ Crash
               /\ UNCHANGED <<replaceCourseBuilderPaths, completedCourses, courseProgress,
                              downloadUrls, usableUrls, fetchI, results, netCalls>>
          ELSE /\ replaceCourseBuilderPaths' = hasBeforeBlock
               /\ IF ~hasBeforeBlock /\ run.blockedOnly
                  THEN ReturnToMain /\ UNCHANGED exitCode
                  ELSE /\ pc' = "evaluate"
                       /\ UNCHANGED <<completedCourses, courseProgress, progressLine, exitCode,
                                      downloadUrls, usableUrls, fetchI, results, netCalls>>
    /\ UNCHANGED <<run, disk, missingLog, pass, firstResults, pathVars, normVars, pageVars>>

\* one turn of evaluateWithRetry's loop: page.evaluate(fn, arg) returns what the
\* in-page function computed, or throws with or without the 'context destroyed'
\* message; a failure that is not retried goes up to main's .catch
EvaluateAttempt ==
    /\ pc = "evaluate"
    /\ \E outcome \in {"ok", "destroyed", "other"} :
          /\ lastEval' = outcome
          /\ IF outcome = "ok"
             THEN /\ \E links \in PageLinkLists :
                        downloadUrls' = LiPass(links, PatchConfig, replaceCourseBuilderPaths)
                  /\ pc' = "postEval"
                  /\ UNCHANGED <<attempt, progressLine, exitCode>>
             ELSE IF ShouldRetry(outcome, attempt)
             THEN /\ attempt' = attempt + 1
                  /\ UNCHANGED <<pc, downloadUrls, progressLine, exitCode>>
             ELSE /\ Crash
                  /\ UNCHANGED <<attempt, downloadUrls>>
    /\ UNCHANGED <<run, courseIdx, replaceCourseBuilderPaths, usableUrls, fetchI, disk, missingLog,
                   completedCourses, courseProgress, results, netCalls, pass, firstResults,
                   pathVars, normVars, pageVars>>

IndexDir == localPathFromUrl(CourseHref(run.yearSeg, CurrentCourse))

IndexPath == pathJoin(IndexDir.path, << <<"i", "n", "d", "e", "x", ".", "h", "t", "m", "l">> >>)

NoUrlsEntry == [label |-> CurrentLabel, url |-> NoHref, reason |-> "No downloadable URLs detected"]

\* processCourse after evaluateWithRetry: the filter, index.html, and either the
\* return for a course without usable urls or the start of the fetch loop
PostEval ==
    /\ pc = "postEval"
    /\ IF ~IndexDir.ok \/ ~mkdirOk(disk, pathDirname(IndexPath)) \/ IndexPath \in disk.dirs
       THEN /\ Crash
            /\ usableUrls' = UsableUrlsOf(downloadUrls)
            /\ UNCHANGED <<disk, missingLog, completedCourses, courseProgress, fetchI, results,
                           netCalls, downloadUrls>>
       ELSE /\ disk' = writeFile(mkdirRecursive(disk, pathDirname(IndexPath)), IndexPath,
                                 HtmlFile(CourseHref(run.yearSeg, CurrentCourse)))
            /\ IF UsableUrlsOf(downloadUrls) = <<>>
               THEN /\ missingLog' = LogMissing(missingLog, NoUrlsEntry)
                    /\ ReturnToMain
                    /\ UNCHANGED exitCode
               ELSE /\ usableUrls' = UsableUrlsOf(downloadUrls)
                    /\ courseProgress' = Progress(CurrentLabel, 0, Len(UsableUrlsOf(downloadUrls)))
                    /\ progressLine' = renderProgress(completedCourses, totalCourses,
                                           Progress(CurrentLabel, 0, Len(UsableUrlsOf(downloadUrls))))
                    /\ pc' = "fetch"
                    /\ fetchI' = 0
                    /\ results' = <<>>
                    /\ netCalls' = 0
                    /\ UNCHANGED <<missingLog, completedCourses, exitCode, downloadUrls>>
    /\ UNCHANGED <<run, courseIdx, replaceCourseBuilderPaths, attempt, lastEval,
                   pass, firstResults, pathVars, normVars, pageVars>>

\* one turn of the fetch loop: decodeURI(url) (outside the try), downloadFile in
\* the try, the catch (log and missingLogger), the finally (courseProgressCb)
FetchStep ==
    /\ pc = "fetch"
    /\ fetchI < Len(usableUrls)
    /\ LET url == usableUrls[fetchI + 1]
           d == decodeURI(url.pathname)
           decoded == [url EXCEPT !.pathname = d.value]
       IN  IF ~d.ok
           THEN /\ Crash
                /\ UNCHANGED <<fetchI, disk, missingLog, courseProgress, results, netCalls>>
           ELSE \E net \in NetOutcomes, wr \in WriteOutcomes :
                   LET r == downloadFile(decoded, disk, net, wr)
                   IN  /\ results' = Append(results, r.result)
                       /\ netCalls' = netCalls + r.net
                       /\ disk' = r.fs
                       /\ missingLog' =
                              IF r.result = "Failed"
                              THEN LogMissing(missingLog, [label |-> CurrentLabel, url |-> decoded, reason |-> r.reason])
                              ELSE missingLog
                       /\ courseProgress' = Progress(CurrentLabel, fetchI + 1, Len(usableUrls))
                       /\ progressLine' = renderProgress(completedCourses, totalCourses,
                                              Progress(CurrentLabel, fetchI + 1, Len(usableUrls)))
                       /\ fetchI' = fetchI + 1
                       /\ UNCHANGED <<pc, exitCode>>
    /\ UNCHANGED <<run, courseIdx, replaceCourseBuilderPaths, attempt, lastEval, downloadUrls,
                   usableUrls, completedCourses, pass, firstResults, pathVars, normVars, pageVars>>

\* the fetch loop is over: courseProgressCb(null) and the return to main
FinishCourse ==
    /\ pc = "fetch"
    /\ fetchI = Len(usableUrls)
    /\ ReturnToMain
    /\ UNCHANGED <<run, courseIdx, replaceCourseBuilderPaths, attempt, lastEval,
                   disk, missingLog, pass, firstResults, exitCode, pathVars, normVars, pageVars>>

Seg_missing == <<"m", "i", "s", "s", "i", "n", "g", ".", "t", "x", "t">>

MissingPath == pathJoin(DOWNLOAD_ROOT, <<normalizeYear(run.yearSeg), Seg_missing>>)

\* main after the loop: missing.txt when there are entries, 'All done.',
\* browser.close(), clearProgressLine()
FinishRun ==
    /\ pc = "loop"
    /\ courseIdx = totalCourses
    /\ IF run.allSelected /\ missingLog # <<>>
       THEN IF ~mkdirOk(disk, pathDirname(MissingPath)) \/ MissingPath \in disk.dirs
            THEN Crash /\ UNCHANGED disk
            ELSE /\ disk' = writeFile(mkdirRecursive(disk, pathDirname(MissingPath)), MissingPath,
                                      ReportFile(missingLog))
                 /\ pc' = "done" /\ exitCode' = "0" /\ progressLine' = ClearedLine
       ELSE /\ pc' = "done" /\ exitCode' = "0" /\ progressLine' = ClearedLine
            /\ UNCHANGED disk
    /\ UNCHANGED <<run, courseIdx, replaceCourseBuilderPaths, attempt, lastEval, downloadUrls,
                   usableUrls, fetchI, missingLog, completedCourses, courseProgress, results,
                   netCalls, pass, firstResults, pathVars, normVars, pageVars>>

Next ==
    \/ OpenRoot
    \/ OpenYear
    \/ BeginCourse
    \/ EvaluateAttempt
    \/ PostEval
    \/ FetchStep
    \/ FinishCourse
    \/ FinishRun

Spec == Init /\ [][Next]_vars

(***************************************************************************)
(* The fetch loop run twice over one list of usable urls: the second run   *)
(* of the program finds the files the first one left on the disk.          *)
(***************************************************************************)
\* what the filter of processCourse can hand to the fetch loop
MaxFetch == 3

\* a page whose first <li> anchor has escaped slashes in its file name
TraversalPage == <<Link_traversal, Link_a>>

FetchLists ==
    { UsableUrlsOf(LiPass(links, PatchConfigOf(y, FALSE), cb)) :
        links \in PagePrefixes(MaxFetch) \cup {TraversalPage}, y \in YearSegs, cb \in BOOLEAN } \ {<<>>}

InitFetch ==
    /\ pc = "fetch"
    /\ run \in Runs
    /\ courseIdx = 1
    /\ replaceCourseBuilderPaths = FALSE
    /\ attempt = 0
    /\ lastEval = "ok"
    /\ downloadUrls = <<>>
    /\ usableUrls \in FetchLists
    /\ fetchI = 0
    /\ disk = EmptyDisk
    /\ missingLog = <<>>
    /\ completedCourses = 0
    /\ courseProgress = Progress(CurrentLabel, 0, Len(usableUrls))
    /\ progressLine = renderProgress(0, totalCourses, courseProgress)
    /\ results = <<>>
    /\ netCalls = 0
    /\ pass = 1
    /\ firstResults = <<>>
    /\ exitCode = "running"
    /\ PathOff
    /\ NormOff
    /\ PageOff

\* the program is started again with the same answers: the fetch loop gets the
\* same list, the disk is as the first run left it, the log and counters are new
SecondRun ==
    /\ pc = "fetch"
    /\ pass = 1
    /\ fetchI = Len(usableUrls)
    /\ pass' = 2
    /\ firstResults' = results
    /\ results' = <<>>
    /\ netCalls' = 0
    /\ fetchI' = 0
    /\ missingLog' = <<>>
    /\ courseProgress' = Progress(CurrentLabel, 0, Len(usableUrls))
    /\ progressLine' = renderProgress(0, totalCourses, Progress(CurrentLabel, 0, Len(usableUrls)))
    /\ UNCHANGED <<pc, run, courseIdx, replaceCourseBuilderPaths, attempt, lastEval, downloadUrls,
                   usableUrls, disk, completedCourses, exitCode, pathVars, normVars, pageVars>>

NextFetch ==
    \/ FetchStep
    \/ SecondRun

SpecFetch == InitFetch /\ [][NextFetch]_vars

(***************************************************************************)
(* The in-page function on one page, and the filter that follows it.       *)
(*                                                                         *)
(* An anchor is the pieces of its href (raw), the query string and the     *)
(* fragment that come with it, and whether it is the first anchor of an    *)
(* <li>.  An href attribute after the pass is a relative path or an        *)
(* absolute url, with query string and fragment, or the attribute as it    *)
(* was.                                                                    *)
(***************************************************************************)
MaxAnchors == 2

Anchor(raw, search, hash, inLi) == [raw |-> raw, search |-> search, hash |-> hash, inLi |-> inLi]

KeptHref(a) ==
    [kind |-> "kept", path |-> <<>>, url |-> a.raw, search |-> a.search, hash |-> a.hash]

RelativeHref(relPath, search, hash) ==
    [kind |-> "relative", path |-> relPath, url |-> NoHref, search |-> search, hash |-> hash]

AbsoluteHref(url, search, hash) ==
    [kind |-> "absolute", path |-> <<>>, url |-> url, search |-> search, hash |-> hash]

\* URL.origin
Origin(u) == <<u.protocol, u.hostname, u.port>>

CourseBuilderPrefix == <<SLASH>> \o Seg_course_builder \o <<SLASH>>

\* a plausible slip: the staff prefix is not looked at before the href is rewritten
RewriteAnchorNoStaffCheck(a, cfg, location) ==
    LET fixed == normalizeUrl(a.raw, cfg)
    IN  IF a.raw.protocol = "javascript:" \/ ~fixed.ok THEN KeptHref(a)
        ELSE IF Origin(fixed) = Origin(location) /\ StartsWith(fixed.pathname, CourseBuilderPrefix)
        THEN RelativeHref(toRelative(splitSegments(baseDir(location.pathname)), fixed.pathname),
                          a.search, a.hash)
        ELSE AbsoluteHref(UrlToString(fixed), a.search, a.hash)

\* a plausible slip: the query string and the fragment are left out of a relative href
RewriteAnchorPathOnly(a, cfg, location) ==
    LET fixed == normalizeUrl(a.raw, cfg)
    IN  IF a.raw.protocol = "javascript:" \/ ~fixed.ok THEN KeptHref(a)
        ELSE IF StartsWithStaffPrefix(UrlToString(fixed)) THEN KeptHref(a)
        ELSE IF Origin(fixed) = Origin(location) /\ StartsWith(fixed.pathname, CourseBuilderPrefix)
        THEN RelativeHref(toRelative(splitSegments(baseDir(location.pathname)), fixed.pathname),
                          "", "")
        ELSE AbsoluteHref(UrlToString(fixed), a.search, a.hash)

\* the callback of document.querySelectorAll('a[href]').forEach(...)
RewriteAnchor(a, cfg, location) ==
    LET fixed == normalizeUrl(a.raw, cfg)
    IN  IF a.raw.protocol = "javascript:" \/ ~fixed.ok THEN KeptHref(a)
        ELSE IF StartsWithStaffPrefix(UrlToString(fixed)) THEN KeptHref(a)
        ELSE IF Origin(fixed) = Origin(location) /\ StartsWith(fixed.pathname, CourseBuilderPrefix)
        THEN RelativeHref(toRelative(splitSegments(baseDir(location.pathname)), fixed.pathname),
                          a.search, a.hash)
        ELSE AbsoluteHref(UrlToString(fixed), a.search, a.hash)

AnchorPass(anchors, cfg, location) ==
    [k \in 1..Len(anchors) |-> RewriteAnchor(anchors[k], cfg, location)]

\* the anchors the <li> pass looks at, and their hrefs
RECURSIVE LiIndices(_, _)
LiIndices(anchors, k) ==
    IF k > Len(anchors) THEN <<>>
    ELSE (IF anchors[k].inLi THEN <<k>> ELSE <<>>) \o LiIndices(anchors, k + 1)

LiLinks(anchors) == [n \in 1..Len(LiIndices(anchors, 1)) |-> anchors[LiIndices(anchors, 1)[n]].raw]

\* does the <li> pass push a url for this anchor
IsPushed(a, cfg) == a.inLi /\ a.raw.protocol # "javascript:" /\ normalizeUrl(a.raw, cfg).ok

\* the url the <li> pass pushes for this anchor
PushedUrl(a, cfg, replaceCB) == LiPass(<<a.raw>>, cfg, replaceCB)[1]

\* console.log(`[Patcher] ADD ${finalHref}`), one line for each url pushed; about
\* is the set of anchors (by position) the line tells of
RECURSIVE AddLines(_, _, _, _)
AddLines(anchors, cfg, replaceCB, k) ==
    IF k > Len(anchors) THEN <<>>
    ELSE (IF IsPushed(anchors[k], cfg)
          THEN <<[kind |-> "ADD", about |-> {k}]>>
          ELSE <<>>) \o AddLines(anchors, cfg, replaceCB, k + 1)

\* console.log(`Skipped ${skipped} link(s) (staff-only or external).`) when skipped > 0
SkippedLines(anchors, cfg, replaceCB) ==
    LET dropped == { k \in 1..Len(anchors) :
                       IsPushed(anchors[k], cfg) /\ ~IsUsableUrl(PushedUrl(anchors[k], cfg, replaceCB)) }
    IN  IF dropped = {} THEN <<>> ELSE <<[kind |-> "Skipped", about |-> dropped]>>

Seg_before_block ==
    <<"i", "n", "d", "e", "x", "-", "b", "e", "f", "o", "r", "e", "_", "b", "l", "o", "c", "k",
      ".", "h", "t", "m", "l">>

\* location of the page the in-page function runs in: the course folder, or
\* index-before_block.html in it when the course is blocked
PageLocation(host, seg, blocked) ==
    HttpsHref(host, "", <<Seg_course_builder, seg, Label_1>> \o
                        (IF blocked THEN <<Seg_before_block>> ELSE << <<>> >>))

Link_old_year == HttpsHref(PMA_NAME, "", <<Seg_course_builder, Seg_2223, Label_1, <<"a">>>>)

Link_off_tree == HttpsHref(PMA_NAME, "", << <<"o">>, <<"y">> >>)

AnchorPool ==
    { Anchor(Link_a, "?q=1", "#top", TRUE),
      Anchor(Link_a_ip, "", "", TRUE),
      Anchor(Link_old_year, "", "#top", TRUE),
      Anchor(Link_staff, "", "#top", TRUE),
      Anchor(Link_staff, "", "", FALSE),
      Anchor(Link_foreign, "?q=1", "", TRUE),
      Anchor(Link_off_tree, "?q=1", "", FALSE),
      Anchor(NoHref, "", "", TRUE),
      Anchor(JavascriptHref, "", "", FALSE) }

AnchorLists == {<<>>} \cup SeqsUpTo(AnchorPool, MaxAnchors)

Seg_u2526 == <<"_", "2", "5", "2", "6">>
Seg_2425 == <<"2", "4", "2", "5">>

\* the year folders a page may be in: the current year, the current year's
\* digits behind an underscore, and another year with and without underscore
PageYearSegs == YearSegs \cup { Seg_u2526, Seg_2425 }

InitPage ==
    /\ gStage = "page"
    /\ gPage \in AnchorLists
    /\ \E y \in PageYearSegs, blocked \in BOOLEAN, host \in ALLOWED_HOSTS :
          /\ gCfg = [cfg |-> PatchConfigOf(y, FALSE), replaceCourseBuilderPaths |-> blocked]
          /\ gLocation = ParseUrl(PageLocation(host, y, blocked))
    /\ gUrls = <<>>
    /\ gHrefs = <<>>
    /\ gLog = <<>>
    /\ gUsable = <<>>
    /\ PathOff
    /\ NormOff
    /\ PipeOff

\* page.evaluate of the in-page function: the <li> pass and the a[href] pass
EvaluatePage ==
    /\ gStage = "page"
    /\ gUrls' = LiPass(LiLinks(gPage), gCfg.cfg, gCfg.replaceCourseBuilderPaths)
    /\ gHrefs' = AnchorPass(gPage, gCfg.cfg, gLocation)
    /\ gLog' = AddLines(gPage, gCfg.cfg, gCfg.replaceCourseBuilderPaths, 1)
    /\ gStage' = "evaluated"
    /\ UNCHANGED <<gPage, gCfg, gLocation, gUsable, pathVars, normVars, pipeVars>>

\* downloadUrls.filter(...) and the line about the links it removed
FilterUrls ==
    /\ gStage = "evaluated"
    /\ gUsable' = UsableUrlsOf(gUrls)
    /\ gLog' = gLog \o SkippedLines(gPage, gCfg.cfg, gCfg.replaceCourseBuilderPaths)
    /\ gStage' = "filtered"
    /\ UNCHANGED <<gPage, gCfg, gLocation, gUrls, gHrefs, pathVars, normVars, pipeVars>>

NextPage == EvaluatePage \/ FilterUrls

SpecPage == InitPage /\ [][NextPage]_vars

(***************************************************************************)
(* Claims about downloadFile, the fetch loop and evaluateWithRetry.        *)
(***************************************************************************)
\* the url the fetch loop is about to hand to downloadFile, and its local target
NextUrl == usableUrls[fetchI + 1]

NextDecoded == [NextUrl EXCEPT !.pathname = decodeURI(NextUrl.pathname).value]

NextTarget == localPathFromUrl(NextDecoded)

NextTargetIsFile ==
    /\ decodeURI(NextUrl.pathname).ok
    /\ NextTarget.ok
    /\ NextTarget.path \in DOMAIN disk.files

\* C1: when a file already exists at the local target of the url handed to
\* downloadFile, the result is Skipped, no network retrieval is made and the
\* content of every file on the disk is what it was before.
C1_SkipExisting ==
    [][(pc = "fetch" /\ fetchI < Len(usableUrls) /\ NextTargetIsFile)
         => /\ fetchI' = fetchI + 1
            /\ results' = Append(results, "Skipped")
            /\ netCalls' = netCalls
            /\ disk'.files = disk.files]_vars

\* C1 witness: a url has been skipped although the file at its target came from
\* another url, and no retrieval was made for it.
C1_Witness ==
    /\ pc = "fetch"
    /\ fetchI = 2
    /\ results = <<"Downloaded", "Skipped">>
    /\ netCalls = 1
    /\ usableUrls[1] # usableUrls[2]
    /\ \E q \in DOMAIN disk.files : disk.files[q] = FileBody(usableUrls[1])
    /\ \A q \in DOMAIN disk.files : disk.files[q].url # usableUrls[2]

EndOfSecondRun == pc = "fetch" /\ pass = 2 /\ fetchI = Len(usableUrls)

FailedInFirstRun(n) == Cardinality({k \in 1..n : firstResults[k] = "Failed"})

C3_FailureNeverAborts ==
    [][(pc = "fetch" /\ fetchI < Len(usableUrls))
         => /\ pc' = "fetch"
            /\ fetchI' = fetchI + 1
            /\ Len(results') = Len(results) + 1
            /\ exitCode' = "running"]_vars

\* the url that downloadFile is given, as axios.get and localPathFromUrl parse it
RequestedUrl == ParseUrl(NextDecoded)

\* C13 as stated: every url handed to downloadFile is on an allowed host and its
\* path starts with '/course_builder/' or '/courses/'.
C13_FetchedWithinAllowed ==
    [][(pc = "fetch" /\ fetchI < Len(usableUrls) /\ fetchI' = fetchI + 1)
         => /\ RequestedUrl.hostname \in {"www.math.cuhk.edu.hk", "137.189.49.33"}
            /\ \/ StartsWith(RequestedUrl.pathname, <<SLASH>> \o Seg_course_builder \o <<SLASH>>)
               \/ StartsWith(RequestedUrl.pathname, <<SLASH>> \o Seg_courses \o <<SLASH>>)]_vars

C18_ReportHoldsFailures ==
    (pc \in {"done", "exited"} /\ run.allSelected /\ missingLog # <<>>)
        => /\ MissingPath \in DOMAIN disk.files
           /\ disk.files[MissingPath] = ReportFile(missingLog)

\* C19 as stated: when main gives up because no year folder or no matching
\* course folder is found, the display is cleaned up and the process ends with a
\* non-zero exit code.
C19_NoUnitsExitsNonZero ==
    pc \in {"noYears", "noCourses"} => (progressLine = ClearedLine /\ exitCode \notin {"running", "0"})

InsideUnit == pc \in {"evaluate", "postEval", "fetch"}

\* C17: the overall total is the number of selected courses and does not change;
\* the overall count starts at 0, goes up by one exactly when a course has been
\* processed to its end (never during its fetches), stays between 0 and the total,
\* and equals the total when the run ends normally.
C17_AggregateProgress ==
    /\ [](/\ 0 <= completedCourses /\ completedCourses <= totalCourses
          /\ pc = "start" => completedCourses = 0
          /\ pc = "loop" => completedCourses = courseIdx
          /\ InsideUnit => completedCourses = courseIdx - 1
          /\ progressLine.shown => (progressLine.total = totalCourses
                                     /\ progressLine.completed = completedCourses)
          /\ pc = "done" => completedCourses = totalCourses)
    /\ [][/\ run' = run
          /\ completedCourses' # completedCourses =>
                /\ completedCourses' = completedCourses + 1
                /\ pc' = "loop"
                /\ pc = "fetch" => fetchI = Len(usableUrls)]_vars

\* C17 witness: a run over two courses has ended normally with files fetched
\* and both courses counted.
C17_Witness ==
    /\ pc = "done"
    /\ totalCourses = 2
    /\ completedCourses = 2
    /\ \E q \in DOMAIN disk.files : disk.files[q].kind = "body"

\* C4: the evaluation is attempted again exactly when the attempt just made
\* failed with the context-destroyed signature and fewer than 3 attempts have
\* been made; any other failure goes to the caller at once; a success on the
\* third attempt returns that attempt's urls and leaves the missing log alone.
C4_RetryRule ==
    [][pc = "evaluate"
         => /\ (pc' = "evaluate" /\ attempt' = attempt + 1)
                  <=> (lastEval' = "destroyed" /\ attempt + 1 < 3)
            /\ lastEval' = "other" => (pc' = "exited" /\ attempt' = attempt)
            /\ (lastEval' = "ok" /\ attempt = 2)
                  => /\ pc' = "postEval"
                     /\ missingLog' = missingLog
                     /\ \E links \in PageLinkLists :
                           downloadUrls' = LiPass(links, PatchConfig, replaceCourseBuilderPaths)]_vars

\* C4 witness: the third attempt succeeded after two transient failures and
\* returned urls, with nothing in the missing log.
C4_Witness ==
    /\ pc = "postEval"
    /\ attempt = 2
    /\ lastEval = "ok"
    /\ downloadUrls # <<>>
    /\ missingLog = <<>>

ExtractionGaveUp == pc = "exited" /\ lastEval = "destroyed"

\* C5 as stated: an extraction that keeps failing transiently is given up at
\* the fourth consecutive failure, not before.
C5_FourthFailureExceeds == ExtractionGaveUp => attempt + 1 >= 4

\* C5 amended: an extraction that keeps failing transiently is given up at the
\* third consecutive failure, not before, and no fourth attempt is ever made.
C5_ThirdFailureExhausts ==
    /\ attempt + 1 <= 3
    /\ ExtractionGaveUp => attempt + 1 = 3

\* C5 witness: the extraction has been given up on its third transient failure.
C5_Witness == ExtractionGaveUp /\ attempt = 2 /\ courseIdx = 1

\* C6 as stated: an extraction that fails for good abandons the current course
\* only; the run goes back to the loop over the selected courses.
C6_ExtractionFailureKeepsRun ==
    [][(pc = "evaluate" /\ pc' # "evaluate" /\ lastEval' # "ok")
         => (pc' = "loop" /\ exitCode' = "running")]_vars

(***************************************************************************)
(* Claims about the PathResolver.                                          *)
(***************************************************************************)
\* the segments of the page's directory and of the link's target, read off the two
\* path names without the code's helpers: the non-empty pieces between the slashes,
\* less the page's own file name
RECURSIVE PiecesOf(_, _)
PiecesOf(s, cur) ==
    IF s = <<>> THEN (IF cur = <<>> THEN <<>> ELSE <<cur>>)
    ELSE IF Head(s) = SLASH
         THEN (IF cur = <<>> THEN <<>> ELSE <<cur>>) \o PiecesOf(Tail(s), <<>>)
         ELSE PiecesOf(Tail(s), Append(cur, Head(s)))

TargetSegs == PiecesOf(pTarget, <<>>)

PageDirSegs ==
    LET all == PiecesOf(pLocation, <<>>)
    IN  IF pLocation[Len(pLocation)] = SLASH THEN all ELSE SubSeq(all, 1, Len(all) - 1)

\* k: the length of the longest common prefix of two segment sequences
IsCommonPrefixLen(b, t, k) ==
    /\ k <= Len(b) /\ k <= Len(t)
    /\ \A j \in 1..k : b[j] = t[j]
    /\ ~(k < Len(b) /\ k < Len(t) /\ b[k + 1] = t[k + 1])

LongestCommonPrefix(b, t) == CHOOSE k \in 0..Len(b) : IsCommonPrefixLen(b, t, k)

ExpectedRelative(b, t) ==
    LET k == LongestCommonPrefix(b, t)
        segs == [n \in 1..(Len(b) - k) |-> DOTDOT] \o SubSeq(t, k + 1, Len(t))
    IN  IF segs = <<>> THEN DOT ELSE Join(segs, SLASH)

Chars_a == <<"a">>
Chars_b == <<"b">>
Chars_c == <<"c">>
Chars_x == <<"x">>
Chars_y == <<"y">>

\* C7: toRelative gives (len(base) - k) '..' segments followed by target[k..], joined
\* with '/', where k is the length of the longest common prefix of base and target;
\* it gives '.' when nothing is left of either; the result never starts with '/';
\* (a,b),(a,b) gives '.', (a,b),(a,c) gives '../c', (),(x,y) gives 'x/y'.
C7_ToRelativeShape ==
    /\ pStage = "done" =>
          /\ pRel = ExpectedRelative(PageDirSegs, TargetSegs)
          /\ pRel # <<>> /\ pRel[1] # SLASH
          /\ (pRel = DOT <=> PageDirSegs = TargetSegs)
    /\ toRelative(<<Chars_a, Chars_b>>, Pathname(<<Chars_a, Chars_b>>)) = DOT
    /\ toRelative(<<Chars_a, Chars_b>>, Pathname(<<Chars_a, Chars_c>>)) = <<".", ".", "/", "c">>
    /\ toRelative(<<>>, Pathname(<<Chars_x, Chars_y>>)) = <<"x", "/", "y">>

\* C7 witness: a depth mismatch with a shared prefix: the result climbs and descends
C7_Witness ==
    /\ pStage = "done"
    /\ LongestCommonPrefix(PageDirSegs, TargetSegs) = 1
    /\ Len(PageDirSegs) = 2
    /\ Len(TargetSegs) = 3

\* resolving a relative reference against a directory, as a browser does: each '..'
\* pops one segment, '.' is a no-op, every other segment is appended
RECURSIVE ResolveParts(_, _)
ResolveParts(dir, parts) ==
    IF parts = <<>> THEN dir
    ELSE IF Head(parts) = DOTDOT
         THEN ResolveParts(IF dir = <<>> THEN dir ELSE SubSeq(dir, 1, Len(dir) - 1), Tail(parts))
    ELSE IF Head(parts) = DOT THEN ResolveParts(dir, Tail(parts))
    ELSE ResolveParts(Append(dir, Head(parts)), Tail(parts))

ResolveAgainst(dir, rel) == ResolveParts(dir, Split(rel, SLASH))

\* C8: resolving toRelative's result against the page's directory yields the
\* target's segment sequence again (round trip).
C8_RoundTrip ==
    pStage = "done" => ResolveAgainst(PageDirSegs, pRel) = TargetSegs

\* C8 witness: a round trip that both pops and appends, from a page that is a file
C8_Witness ==
    /\ pStage = "done"
    /\ pLocation[Len(pLocation)] # SLASH
    /\ Len(PageDirSegs) >= 1
    /\ LongestCommonPrefix(PageDirSegs, TargetSegs) < Len(PageDirSegs)
    /\ LongestCommonPrefix(PageDirSegs, TargetSegs) < Len(TargetSegs)
    /\ ResolveAgainst(PageDirSegs, pRel) = TargetSegs

(***************************************************************************)
(* The UrlNormalizer harness: one href, one rule configuration.            *)
(***************************************************************************)
Seg_Course_Builder == <<"C", "o", "u", "r", "s", "e", "_", "B", "u", "i", "l", "d", "e", "r">>
Seg_22 == <<"2", "2">>
Digits_2425 == <<"2", "4", "2", "5">>

NormSegPool == { Seg_course_builder, Seg_Course_Builder, Seg_2223, Seg_u2425, Seg_22, <<>> }

NormPathNames == { Pathname(segs) : segs \in SeqsUpTo(NormSegPool, MaxPathSegs) }

NormHosts == { PMA_IP, PMA_NAME, "137.189.49.33.example.org" }

NormPorts == { "", "443", "8080" }

\* deep path names, long enough to hold the anchor and a year segment twice
DeepPathNames == { Pathname(segs) : segs \in SeqsUpTo({ Seg_course_builder, Seg_2223, <<>> }, MaxDeepSegs) }

NormHrefs ==
    [wellFormed : {TRUE}, protocol : {"https:"}, hostname : NormHosts, port : NormPorts,
     pathname : NormPathNames]
    \cup
    [wellFormed : {TRUE}, protocol : {"https:"}, hostname : {PMA_IP}, port : {""},
     pathname : DeepPathNames]
    \cup { [wellFormed |-> FALSE, protocol |-> "", hostname |-> "", port |-> "", pathname |-> <<>>] }

\* the rule fields of PatchConfig: main sets yearPrefix to '_' or '', courseYearDigits
\* to the four digits of the chosen year, and the host pair to PMA_IP -> PMA_NAME
NormConfigs ==
    [applyYearRewrite : BOOLEAN, yearPrefix : { <<>>, <<"_">> }, courseYearDigits : { Digits_2425 },
     forceHostReplacement : BOOLEAN, hostNeedingFix : { PMA_IP }, hostReplacement : { PMA_NAME }]

InitNorm ==
    /\ nStage = "input"
    /\ nHref \in NormHrefs
    /\ nCfg \in NormConfigs
    /\ nOut1 = NullUrl
    /\ nOut2 = NullUrl
    /\ PathOff
    /\ PipeOff
    /\ PageOff

\* const fixed = normalizeUrl(a.href)
NormalizeOnce ==
    /\ nStage = "input"
    /\ nOut1' = normalizeUrl(nHref, nCfg)
    /\ nStage' = "once"
    /\ UNCHANGED <<nHref, nCfg, nOut2, pathVars, pipeVars, pageVars>>

\* normalizeUrl applied to its own output, with the same rules
NormalizeTwice ==
    /\ nStage = "once"
    /\ nOut1.ok
    /\ nOut2' = normalizeUrl(UrlToString(nOut1), nCfg)
    /\ nStage' = "twice"
    /\ UNCHANGED <<nHref, nCfg, nOut1, pathVars, pipeVars, pageVars>>

NextNorm == NormalizeOnce \/ NormalizeTwice

SpecNorm == InitNorm /\ [][NextNorm]_vars

\* C9: normalizeUrl is idempotent: applied to its own output with the same rule
\* configuration it returns the same URL.
C9_NormalizeIdempotent ==
    nStage = "twice" => nOut2 = nOut1

\* C9 witness: a second application to a URL that both rules changed the first time
C9_Witness ==
    /\ nStage = "twice"
    /\ nCfg.applyYearRewrite /\ nCfg.forceHostReplacement
    /\ nOut1.hostname # ParseUrl(nHref).hostname
    /\ nOut1.pathname # ParseUrl(nHref).pathname
    /\ nOut2 = nOut1

\* C10: with the host fix configured, a URL whose resolved hostname is exactly H1
\* normalizes to hostname H2 with an empty port; for any other hostname the host and
\* the port are those of the resolved URL.
C10_HostFix ==
    (nStage \in {"once", "twice"} /\ nCfg.forceHostReplacement /\ nOut1.ok) =>
        LET resolved == ParseUrl(nHref)
        IN  IF resolved.hostname = nCfg.hostNeedingFix
            THEN nOut1.hostname = nCfg.hostReplacement /\ nOut1.port = ""
            ELSE nOut1.hostname = resolved.hostname /\ nOut1.port = resolved.port

\* C10 witness: a URL on H1 with an explicit port has been normalized
C10_Witness ==
    /\ nStage = "once"
    /\ nCfg.forceHostReplacement
    /\ ParseUrl(nHref).hostname = PMA_IP
    /\ ParseUrl(nHref).port = "8080"
    /\ nOut1.hostname = PMA_NAME /\ nOut1.port = ""

LowerSeg(seg) == [k \in 1..Len(seg) |-> ToLower(seg[k])]

IsYearSeg(seg) ==
    \/ Len(seg) = 4 /\ \A k \in 1..4 : IsDigit(seg[k])
    \/ Len(seg) = 5 /\ seg[1] = "_" /\ \A k \in 2..5 : IsDigit(seg[k])

IsNumericSeg(seg) == seg # <<>> /\ \A k \in 1..Len(seg) : IsDigit(seg[k])

\* the segments of the resolved path and of the normalized one
SegsIn == Split(ParseUrl(nHref).pathname, SLASH)

SegsOut == Split(nOut1.pathname, SLASH)

RewrittenAt == { i \in 1..Len(SegsIn) : SegsOut[i] # SegsIn[i] }

Path_cb_2223_x == Pathname(<<Seg_course_builder, Seg_2223, <<"x">>>>)

Path_cb_u2223_x == Pathname(<<Seg_course_builder, <<"_">> \o Seg_2223, <<"x">>>>)

\* C11: with the year rewrite configured, the normalized path has the segments of
\* the resolved path except for at most one, which is a 4-digit (optionally
\* underscore-prefixed) segment right after a segment 'course_builder' (in any
\* letter case) and becomes prefix + digits; a path without that anchor segment
\* is unchanged; the two examples of the rule evaluate as stated.
C11_YearRewrite ==
    /\ (nStage \in {"once", "twice"} /\ nCfg.applyYearRewrite /\ nOut1.ok) =>
          /\ Len(SegsOut) = Len(SegsIn)
          /\ Cardinality(RewrittenAt) <= 1
          /\ \A i \in RewrittenAt :
                /\ i > 1
                /\ LowerSeg(SegsIn[i - 1]) = Seg_course_builder
                /\ IsYearSeg(SegsIn[i])
                /\ SegsOut[i] = nCfg.yearPrefix \o nCfg.courseYearDigits
          /\ (\A i \in 1..Len(SegsIn) : LowerSeg(SegsIn[i]) # Seg_course_builder) => SegsOut = SegsIn
    /\ YearReplace(Path_cb_2223_x, <<>>, Digits_2425)
          = Pathname(<<Seg_course_builder, Digits_2425, <<"x">>>>)
    /\ YearReplace(Path_cb_u2223_x, <<"_">>, Digits_2425)
          = Pathname(<<Seg_course_builder, <<"_">> \o Digits_2425, <<"x">>>>)

\* C11 witness: a path with the anchor in capitals was rewritten at one segment
\* while another year-like segment of it, also behind an anchor, was left alone.
C11_Witness ==
    /\ nStage = "once"
    /\ nCfg.applyYearRewrite
    /\ nOut1.ok
    /\ Cardinality(RewrittenAt) = 1
    /\ \E i \in 1..Len(SegsIn) :
          /\ i \notin RewrittenAt
          /\ i > 1
          /\ IsYearSeg(SegsIn[i])
          /\ LowerSeg(SegsIn[i - 1]) = Seg_course_builder

(***************************************************************************)
(* Claims about the in-page function and the filter.                       *)
(***************************************************************************)
\* the url's text starts with 'https://www.math.cuhk.edu.hk/~'
IsStaffUrl(u) ==
    /\ u.protocol = "https:" /\ u.hostname = "www.math.cuhk.edu.hk" /\ u.port = ""
    /\ Len(u.pathname) >= 2 /\ u.pathname[1] = "/" /\ u.pathname[2] = "~"

NormalizedAnchor(k) == normalizeUrl(gPage[k].raw, gCfg.cfg)

\* C12: a url that starts with the staff prefix is never among the urls given to
\* the fetch loop, and an anchor whose normalized url starts with the staff prefix
\* keeps the href attribute it had.
C12_StaffDropped ==
    /\ gStage = "filtered" => \A n \in 1..Len(gUsable) : ~IsStaffUrl(gUsable[n])
    /\ gStage \in {"evaluated", "filtered"} =>
          \A k \in 1..Len(gPage) :
              (NormalizedAnchor(k).ok /\ IsStaffUrl(NormalizedAnchor(k)))
                  => /\ gHrefs[k].kind = "kept"
                     /\ gHrefs[k].url = gPage[k].raw
                     /\ gHrefs[k].search = gPage[k].search
                     /\ gHrefs[k].hash = gPage[k].hash

\* C12 witness: the <li> pass emitted a staff url, the filter removed it, and
\* the anchor kept its href.
C12_Witness ==
    /\ gStage = "filtered"
    /\ \E k \in 1..Len(gPage) :
          /\ gPage[k].inLi
          /\ IsStaffUrl(gPage[k].raw)
          /\ \E n \in 1..Len(gUrls) : gUrls[n] = gPage[k].raw
          /\ \A n \in 1..Len(gUsable) : gUsable[n] # gPage[k].raw
          /\ gHrefs[k].kind = "kept"

\* C14 as stated: the filter keeps every url the in-page pass emitted; the two
\* passes classify alike.
C14_PassesAgree == gStage = "filtered" => gUsable = gUrls

DirSegsOf(p) ==
    LET all == PiecesOf(p, <<>>)
    IN  IF p[Len(p)] = SLASH THEN all ELSE SubSeq(all, 1, Len(all) - 1)

IsRewritten(k) ==
    /\ gPage[k].raw.protocol # "javascript:"
    /\ NormalizedAnchor(k).ok
    /\ ~IsStaffUrl(NormalizedAnchor(k))

IsMirrored(k) ==
    /\ NormalizedAnchor(k).protocol = gLocation.protocol
    /\ NormalizedAnchor(k).hostname = gLocation.hostname
    /\ NormalizedAnchor(k).port = gLocation.port
    /\ StartsWith(NormalizedAnchor(k).pathname,
                  <<"/", "c", "o", "u", "r", "s", "e", "_", "b", "u", "i", "l", "d", "e", "r", "/">>)

C20_NothingSwallowed ==
    gStage = "filtered" =>
        \A k \in 1..Len(gPage) :
            (\/ ~NormalizedAnchor(k).ok
             \/ /\ IsPushed(gPage[k], gCfg.cfg)
                /\ ~IsUsableUrl(PushedUrl(gPage[k], gCfg.cfg, gCfg.replaceCourseBuilderPaths)))
                => \E n \in 1..Len(gLog) : k \in gLog[n].about

(***************************************************************************)
(* Claims about the local target of a url.                                 *)
(***************************************************************************)
\* the path segments of the url downloadFile is given, less the leading
\* 'course_builder' or 'courses', each decoded
TreeSegs ==
    LET parts == PiecesOf(RequestedUrl.pathname, <<>>)
    IN  IF parts # <<>> /\ parts[1] \in {Seg_course_builder, Seg_courses} THEN Tail(parts) ELSE parts

DecodedTreeSegs == [k \in 1..Len(TreeSegs) |-> decodeURIComponent(TreeSegs[k]).value]

\* a segment that names no file or directory below its parent: empty, '..', or
\* one that holds a separator
IsTraversalSeg(seg) == seg = <<>> \/ seg = <<".", ".">> \/ \E k \in 1..Len(seg) : seg[k] = "/"

\* C21 as stated: the local path of a url handed to downloadFile is the mirror
\* root followed by the url's decoded path segments without the leading tree
\* root; none of these segments is a traversal segment, and the path is below
\* the mirror root.
C21_LocalPathUnderRoot ==
    (pc = "fetch" /\ fetchI < Len(usableUrls) /\ decodeURI(NextUrl.pathname).ok /\ NextTarget.ok) =>
        /\ \A k \in 1..Len(DecodedTreeSegs) : ~IsTraversalSeg(DecodedTreeSegs[k])
        /\ NextTarget.path = <<Seg_dl>> \o DecodedTreeSegs
        /\ Len(NextTarget.path) > 1 /\ NextTarget.path[1] = Seg_dl

(***************************************************************************)
(* Claims about what a fetch leaves on the disk.                           *)
(***************************************************************************)
\* the local target of the k-th url of the fetch list
TargetOfUrl(k) ==
    localPathFromUrl([usableUrls[k] EXCEPT !.pathname = decodeURI(usableUrls[k].pathname).value])

\* C22 as stated: a fetch leaves the complete response body at its target or no
\* file at all; no file on the disk is a part of a body, and a url that a later
\* run reports as Skipped has the complete body at its target.
C22_AtomicWrite ==
    /\ \A q \in DOMAIN disk.files : disk.files[q].kind # "partial"
    /\ (pc = "fetch" /\ pass = 2) =>
          \A k \in 1..fetchI :
              results[k] = "Skipped" =>
                  /\ TargetOfUrl(k).path \in DOMAIN disk.files
                  /\ disk.files[TargetOfUrl(k).path].kind = "body"

(***************************************************************************)
(* The files that fetches have stored.                                     *)
(***************************************************************************)
BodyFiles(fs) == { q \in DOMAIN fs.files : fs.files[q].kind \in {"body", "partial"} }

(***************************************************************************)
(* Claims about hrefs that do not parse.                                   *)
(***************************************************************************)
IsMalformed(k) == ~gPage[k].raw.wellFormed

\* the <li> anchors whose href is a url (parses, and is no javascript: link)
UrlAnchors == { k \in 1..Len(gPage) :
                  gPage[k].inLi /\ gPage[k].raw.wellFormed /\ gPage[k].raw.protocol # "javascript:" }

\* C24: the in-page function returns whatever hrefs the page holds; an anchor
\* whose href does not parse adds no url and keeps its href attribute, and every
\* other anchor is handled as if it were not there: each <li> anchor with a url
\* adds one url, and each anchor with a url outside the staff area is rewritten.
C24_MalformedSkippedAlone ==
    gStage \in {"evaluated", "filtered"} =>
        /\ Len(gHrefs) = Len(gPage)
        /\ Len(gUrls) = Cardinality(UrlAnchors)
        /\ \A n \in 1..Len(gUrls) : gUrls[n].wellFormed
        /\ \A k \in 1..Len(gPage) :
              /\ IsMalformed(k) =>
                    /\ gHrefs[k].kind = "kept"
                    /\ gHrefs[k].url = gPage[k].raw
              /\ (~IsMalformed(k) /\ gPage[k].raw.protocol = "https:"
                      /\ ~IsStaffUrl(NormalizedAnchor(k)))
                    => gHrefs[k].kind \in {"relative", "absolute"}

\* C24 witness: the first <li> anchor of the page has an href that does not
\* parse; the one after it was added to the urls and rewritten.
C24_Witness ==
    /\ gStage = "evaluated"
    /\ Len(gPage) = 2
    /\ IsMalformed(1) /\ gPage[1].inLi
    /\ gPage[2].inLi
    /\ Len(gUrls) = 1
    /\ gHrefs[1].kind = "kept"
    /\ gHrefs[2].kind = "relative"

(***************************************************************************)
(* Claims about the order of the work.                                     *)
(***************************************************************************)
\* u holds elements of d, in the order d has them
IsInOrderOf(u, d) ==
    \E f \in [1..Len(u) -> 1..Len(d)] :
        /\ \A k \in 1..Len(u) : u[k] = d[f[k]]
        /\ \A j, k \in 1..Len(u) : j < k => f[j] < f[k]

\* the files whose content differs between two disks
ChangedFiles(fs1, fs2) ==
    { q \in DOMAIN fs1.files \cup DOMAIN fs2.files :
        ~(q \in DOMAIN fs1.files /\ q \in DOMAIN fs2.files /\ fs1.files[q] = fs2.files[q]) }

\* C25: a course is started only from main's loop, when every course started
\* before it has been counted and none of its extraction or fetch state is left;
\* a course is counted from its fetch loop only when every url has a result; the
\* fetch list has the urls in the order the in-page function returned them; a
\* step of the fetch loop handles the one url at index i: one more result, at
\* most one retrieval, and no file touched but that url's target.
C25_Sequential ==
    /\ [](/\ pc = "loop" => (completedCourses = courseIdx /\ usableUrls = <<>> /\ fetchI = 0
                                /\ results = <<>>)
          /\ InsideUnit => completedCourses = courseIdx - 1
          /\ pc = "fetch" => (IsInOrderOf(usableUrls, downloadUrls) /\ Len(results) = fetchI))
    /\ [][/\ courseIdx' # courseIdx =>
                (pc = "loop" /\ courseIdx' = courseIdx + 1 /\ completedCourses = courseIdx)
          /\ (pc = "fetch" /\ completedCourses' # completedCourses) => fetchI = Len(usableUrls)
          /\ (pc = "fetch" /\ results' # results /\ pc' = "fetch") =>
                /\ fetchI' = fetchI + 1
                /\ results' = Append(results, results'[fetchI + 1])
                /\ netCalls' - netCalls \in {0, 1}
                /\ ChangedFiles(disk, disk') \subseteq {NextTarget.path}
                /\ usableUrls' = usableUrls]_vars

\* C25 witness: the second course is in its fetch loop after the first was
\* counted; the first of its two different urls has been fetched and stored, the
\* second not yet.
C25_Witness ==
    /\ pc = "fetch"
    /\ courseIdx = 2
    /\ completedCourses = 1
    /\ Len(usableUrls) = 2
    /\ usableUrls[1] # usableUrls[2]
    /\ fetchI = 1
    /\ results = <<"Downloaded">>
    /\ TargetOfUrl(1).path \in DOMAIN disk.files
    /\ TargetOfUrl(2).path \notin DOMAIN disk.files

(***************************************************************************)
(* Claims about the end of an aborted run.                                 *)
(***************************************************************************)
\* C26 as stated: when the run has been ended by an error nobody caught, the
\* progress display is cleared and the entries the missing log held at that
\* moment are in the report file.
C26_AbortFlushesState ==
    (pc = "exited" /\ exitCode = "1") =>
        /\ progressLine = ClearedLine
        /\ missingLog # <<>> =>
              /\ MissingPath \in DOMAIN disk.files
              /\ disk.files[MissingPath].kind = "report"
              /\ disk.files[MissingPath].lines = missingLog

(***************************************************************************)
(* Claims about the progress display.                                      *)
(***************************************************************************)
NoUnitPayload == [set |-> FALSE, courseName |-> <<>>, downloaded |-> 0, total |-> 0]

ShownLine(completed, total, unit) ==
    [shown |-> TRUE, completed |-> completed, total |-> total, course |-> unit]

\* C27: outside a fetch loop the per-course payload is empty and the display has
\* no per-course line; the display has a per-course line only during a fetch
\* loop, whose total is then above zero, and a course without usable urls never
\* gets one; after every step that changes the count of completed courses or the
\* per-course payload the display shows the new values.
C27_UnitProgressDisplay ==
    /\ [](/\ pc \in {"start", "year", "loop", "evaluate", "postEval", "done"} =>
                (courseProgress = NoUnitPayload /\ ~progressLine.course.set)
          /\ progressLine.course.set =>
                (pc = "fetch" /\ progressLine.course.total > 0 /\ Len(usableUrls) > 0)
          /\ pc = "fetch" =>
                progressLine = ShownLine(completedCourses, Len(run.courses), courseProgress)
          /\ (pc = "loop" /\ courseIdx > 0) =>
                progressLine = ShownLine(completedCourses, Len(run.courses), NoUnitPayload))
    /\ [][/\ ((completedCourses' # completedCourses \/ courseProgress' # courseProgress)
                  /\ pc' # "exited") =>
                progressLine' = ShownLine(completedCourses', Len(run.courses), courseProgress')
          /\ (pc = "postEval" /\ pc' = "loop") => ~progressLine'.course.set
          /\ (pc = "fetch" /\ pc' = "loop") =>
                (courseProgress' = NoUnitPayload /\ ~progressLine'.course.set)]_vars

\* C27 witness: the first course had files fetched, so it had a per-course line;
\* now the second course is being extracted, the payload is empty and the display
\* shows the overall line only, with one course completed.
C27_Witness ==
    /\ pc = "evaluate"
    /\ courseIdx = 2
    /\ BodyFiles(disk) # {}
    /\ courseProgress = NoUnitPayload
    /\ progressLine = ShownLine(1, 2, NoUnitPayload)

(***************************************************************************)
(* Claims about the choice of the rewrite rules.                           *)
(***************************************************************************)
\* the year folder of the page, and whether it is the current year's
PageYear == PiecesOf(gLocation.pathname, <<>>)[2]

IsCurrentYearPage == PageYear = <<"2", "5", "2", "6">>

\* the path with its year folder (the segment after a leading 'course_builder',
\* when it is a year and a segment follows it) replaced by the page's year
WithPageYear(pathname) ==
    LET segs == PiecesOf(pathname, <<>>)
    IN  IF Len(segs) >= 3 /\ LowerSeg(segs[1]) = Seg_course_builder /\ IsYearSeg(segs[2])
        THEN Pathname(<<segs[1], PageYear>> \o SubSeq(segs, 3, Len(segs)))
        ELSE pathname

\* what the rule of the page's year makes of the url of anchor k
ExpectedUrl(k) ==
    LET in == ParseUrl(gPage[k].raw)
        hostFixed == IsCurrentYearPage /\ in.hostname = "137.189.49.33"
    IN  [wellFormed |-> TRUE,
         protocol |-> in.protocol,
         hostname |-> IF hostFixed THEN "www.math.cuhk.edu.hk" ELSE in.hostname,
         port |-> IF hostFixed THEN "" ELSE in.port,
         pathname |-> IF IsCurrentYearPage THEN in.pathname ELSE WithPageYear(in.pathname)]

\* the <li> anchors with a url, in document order
UrlAnchorSeq == SelectSeq(LiIndices(gPage, 1), LAMBDA k : k \in UrlAnchors)

WithCoursesPath(u) ==
    IF gCfg.replaceCourseBuilderPaths
    THEN [u EXCEPT !.pathname = ReplaceAll(@, Seg_course_builder, Seg_courses)]
    ELSE u

\* C28: for the year folder '2526' the configuration has the year rewrite off
\* and the host fix on, for every other year folder (also '_2526') the year
\* rewrite on and the host fix off, so exactly one of the two is on; the urls
\* the in-page function returns are those the rule in force gives: host fixed
\* and path kept, or host kept and the year folder replaced by the chosen one.
C28_RuleSelection ==
    /\ gCfg.cfg.applyYearRewrite = ~IsCurrentYearPage
    /\ gCfg.cfg.forceHostReplacement = IsCurrentYearPage
    /\ gCfg.cfg.applyYearRewrite # gCfg.cfg.forceHostReplacement
    /\ gCfg.cfg.yearPrefix \o gCfg.cfg.courseYearDigits = PageYear
    /\ gStage \in {"evaluated", "filtered"} =>
          /\ Len(gUrls) = Len(UrlAnchorSeq)
          /\ \A n \in 1..Len(gUrls) : gUrls[n] = WithCoursesPath(ExpectedUrl(UrlAnchorSeq[n]))

\* C28 witness: a page of the year folder '_2526' whose <li> anchors point to
\* another year's folder and to the numeric host: the year was rewritten, the
\* host was left.
C28_Witness ==
    /\ gStage = "evaluated"
    /\ PageYear = <<"_", "2", "5", "2", "6">>
    /\ ~gCfg.replaceCourseBuilderPaths
    /\ Len(gUrls) = 2
    /\ ParseUrl(gPage[1].raw).pathname = Pathname(<<Seg_course_builder, Seg_2223, Label_1, <<"a">>>>)
    /\ gUrls[1].pathname = Pathname(<<Seg_course_builder, PageYear, Label_1, <<"a">>>>)
    /\ gPage[2].raw.hostname = "137.189.49.33"
    /\ gUrls[2].hostname = "137.189.49.33"

(***************************************************************************)
(* Claims about the unit's index.html.                                     *)
(***************************************************************************)
\* the index.html of the course in progress, and the rewritten page it is to hold
UnitIndexPath ==
    <<Seg_dl, run.yearSeg, CourseLabels[run.courses[courseIdx]], Seg_index_html>>

UnitHtml ==
    [kind |-> "html",
     url |-> HttpsHref("www.math.cuhk.edu.hk", "",
                       <<Seg_course_builder, run.yearSeg, CourseLabels[run.courses[courseIdx]], <<>>>>),
     lines |-> <<>>]

HoldsUnitHtml(fs) == UnitIndexPath \in DOMAIN fs.files /\ fs.files[UnitIndexPath] = UnitHtml

\* C29: the step after the extraction stores the rewritten page as the course's
\* index.html, whatever was at that path and whether or not a url is left to
\* fetch, before anything has been fetched for the course; during the fetch loop
\* and at its end index.html still holds the rewritten page.
C29_IndexHtmlFirst ==
    /\ [](pc = "fetch" => HoldsUnitHtml(disk))
    /\ [][/\ (pc = "postEval" /\ pc' # "exited") =>
                /\ HoldsUnitHtml(disk')
                /\ pc' \in {"fetch", "loop"}
                /\ results = <<>> /\ netCalls = 0 /\ results' = <<>> /\ netCalls' = 0
                /\ ChangedFiles(disk, disk') \subseteq {UnitIndexPath}
          /\ (pc = "fetch" /\ pc' = "loop") => HoldsUnitHtml(disk')]_vars

\* C29 witness: the course's own index.html is the first url of its fetch list
\* and was skipped; the file holds the rewritten page.
C29_Witness ==
    /\ pc = "fetch"
    /\ courseIdx = 2
    /\ fetchI = Len(usableUrls)
    /\ fetchI = 2
    /\ TargetOfUrl(1).path = UnitIndexPath
    /\ results[1] = "Skipped"
    /\ results[2] = "Downloaded"
    /\ HoldsUnitHtml(disk)

(***************************************************************************)
(* Claims about the blocked-only mode.                                     *)
(***************************************************************************)
\* the text 'course_builder' occurs in the path
HasCourseBuilder(p) ==
    \E i \in 1..Len(p) :
        /\ i + 13 <= Len(p)
        /\ SubSeq(p, i, i + 13) = <<"c", "o", "u", "r", "s", "e", "_", "b", "u", "i", "l", "d", "e", "r">>

\* C30: in a blocked-only run a course whose page has no 'index-before_block.html'
\* link goes back to main's loop at once: nothing is extracted, the disk and the
\* missing log are as before, no url is fetched, and the course is counted; so
\* every course that is extracted in such a run has the link, and the urls of a
\* course that has the link hold 'courses' where 'course_builder' was.
C30_BlockedOnly ==
    /\ [](/\ (run.blockedOnly /\ InsideUnit) => replaceCourseBuilderPaths
          /\ (pc \in {"postEval", "fetch"} /\ replaceCourseBuilderPaths) =>
                /\ \A n \in 1..Len(downloadUrls) : ~HasCourseBuilder(downloadUrls[n].pathname)
                /\ \A n \in 1..Len(usableUrls) :
                      SubSeq(usableUrls[n].pathname, 1, 9) = <<"/", "c", "o", "u", "r", "s", "e", "s", "/">>)
    /\ [][(pc = "loop" /\ courseIdx' = courseIdx + 1 /\ run.blockedOnly
              /\ ~replaceCourseBuilderPaths' /\ pc' # "exited") =>
                /\ pc' = "loop"
                /\ completedCourses' = completedCourses + 1
                /\ disk' = disk
                /\ missingLog' = missingLog
                /\ downloadUrls' = <<>> /\ usableUrls' = <<>>
                /\ results' = <<>> /\ netCalls' = 0
                /\ lastEval' = "none"]_vars

\* C30 witness: in a blocked-only run the first course had no sentinel link and
\* left nothing on the disk or in the log; the second has it and is fetching
\* urls under '/courses/'.
C30_Witness ==
    /\ run.blockedOnly
    /\ pc = "fetch"
    /\ courseIdx = 2
    /\ completedCourses = 1
    /\ fetchI = 1
    /\ missingLog = <<>>
    /\ \A q \in DOMAIN disk.files : Len(q) >= 3 => q[3] # Label_1
    /\ \E q \in DOMAIN disk.files : Len(q) >= 3 /\ disk.files[q].kind = "html" /\ q[3] = Label_2
    /\ SubSeq(usableUrls[1].pathname, 1, 9) = <<"/", "c", "o", "u", "r", "s", "e", "s", "/">>

\* C23: when the filter leaves no url, processCourse returns without entering
\* the fetch loop: nothing is retrieved, no file but the course's index.html is
\* touched, one entry naming the course goes to the missing log when the run
\* keeps one (all courses selected), the course is counted, and main's loop is
\* ready for the next course.
C23_NoUrlsUnitAbandoned ==
    [][(pc = "postEval" /\ UsableUrlsOf(downloadUrls) = <<>> /\ pc' # "exited")
         => /\ pc' = "loop"
            /\ exitCode' = "running"
            /\ courseIdx' = courseIdx
            /\ completedCourses' = completedCourses + 1
            /\ progressLine'.completed = completedCourses + 1
            /\ netCalls' = 0 /\ results' = <<>>
            /\ ChangedFiles(disk, disk') \subseteq {UnitIndexPath}
            /\ missingLog' = IF run.allSelected
                             THEN Append(missingLog,
                                         [label |-> CourseLabels[run.courses[courseIdx]],
                                          url |-> NoHref,
                                          reason |-> "No downloadable URLs detected"])
                             ELSE missingLog]_vars

\* C23 witness: the first course had no fetchable url; it was counted and
\* entered in the missing log, and the second course is under way.
C23_Witness ==
    /\ pc = "evaluate"
    /\ courseIdx = 2
    /\ completedCourses = 1
    /\ Len(missingLog) = 1
    /\ missingLog[1].label = Label_1
    /\ missingLog[1].reason = "No downloadable URLs detected"
    /\ BodyFiles(disk) = {}

====
